---------------------------- MODULE Spec2Model ----------------------------
(***************************************************************************)
(* Model of the compromise-detection engine of jfrog-scan (GitHubScanner   *)
(* and buildCompromisedMap).                                               *)
(*                                                                         *)
(* Strings are sequences of one-character strings, so that lastIndexOf,    *)
(* slice, split, includes, endsWith and the regular expressions of the     *)
(* source are computed character by character.  Indices of the string      *)
(* helpers are 0-based, as in JavaScript.                                  *)
(***************************************************************************)
EXTENDS Integers, Sequences, FiniteSets, TLC

(***************************************************************************)
(* JavaScript string and collection helpers                                *)
(***************************************************************************)
Range(s) == {s[i] : i \in 1..Len(s)}

\* String.prototype.lastIndexOf(ch): 0-based index of the last ch, or -1
LastIndexOf(s, ch) ==
  IF \E i \in 1..Len(s) : s[i] = ch
    THEN (CHOOSE i \in 1..Len(s) : s[i] = ch /\ \A j \in (i+1)..Len(s) : s[j] # ch) - 1
    ELSE -1

\* String.prototype.indexOf(ch): 0-based index of the first ch, or -1
IndexOf(s, ch) ==
  IF \E i \in 1..Len(s) : s[i] = ch
    THEN (CHOOSE i \in 1..Len(s) : s[i] = ch /\ \A j \in 1..(i-1) : s[j] # ch) - 1
    ELSE -1

\* String.prototype.slice(from, to) for 0 <= from <= to <= length
Slice(s, from, to) == SubSeq(s, from + 1, to)

\* Set.prototype.add on an insertion-ordered set kept as a duplicate-free sequence
SetAdd(set, v) == IF v \in Range(set) THEN set ELSE Append(set, v)

\* Map with no key
EmptyMap == [k \in {} |-> <<>>]

\* compromisedMap.has(name)
MapHas(map, name) == name \in DOMAIN map

\* whether sub occurs in s at 1-based position i
OccursAt(s, sub, i) ==
  /\ i >= 1
  /\ i + Len(sub) - 1 <= Len(s)
  /\ SubSeq(s, i, i + Len(sub) - 1) = sub

\* String.prototype.includes(sub)
Includes(s, sub) == \E i \in 1..(Len(s) + 1) : OccursAt(s, sub, i)

\* String.prototype.endsWith(sub)
EndsWith(s, sub) == Len(sub) <= Len(s) /\ SubSeq(s, Len(s) - Len(sub) + 1, Len(s)) = sub

\* String.prototype.split(sep) for a non-empty separator: the pieces between the
\* successive (leftmost, non-overlapping) occurrences of sep
RECURSIVE Split(_, _)
Split(s, sep) ==
  IF ~Includes(s, sep) THEN <<s>>
  ELSE LET i == CHOOSE k \in 1..Len(s) :
                  OccursAt(s, sep, k) /\ \A j \in 1..(k-1) : ~OccursAt(s, sep, j)
       IN <<SubSeq(s, 1, i - 1)>> \o Split(SubSeq(s, i + Len(sep), Len(s)), sep)

\* String.prototype.trim() (spaces only)
RECURSIVE Trim(_)
Trim(s) ==
  IF s = <<>> THEN s
  ELSE IF Head(s) = " " THEN Trim(Tail(s))
  ELSE IF s[Len(s)] = " " THEN Trim(SubSeq(s, 1, Len(s) - 1))
  ELSE s

\* Array.prototype.join(sep)
RECURSIVE Join(_, _)
Join(parts, sep) ==
  IF parts = <<>> THEN <<>>
  ELSE IF Len(parts) = 1 THEN parts[1]
  ELSE parts[1] \o sep \o Join(Tail(parts), sep)

Digits == {"0", "1", "2", "3", "4", "5", "6", "7", "8", "9"}

DigitVal(c) ==
  CASE c = "0" -> 0 [] c = "1" -> 1 [] c = "2" -> 2 [] c = "3" -> 3 [] c = "4" -> 4
    [] c = "5" -> 5 [] c = "6" -> 6 [] c = "7" -> 7 [] c = "8" -> 8 [] c = "9" -> 9

RECURSIVE NumVal(_)
NumVal(s) == IF s = <<>> THEN 0 ELSE 10 * NumVal(SubSeq(s, 1, Len(s) - 1)) + DigitVal(s[Len(s)])

(***************************************************************************)
(* String constants used as inputs                                         *)
(***************************************************************************)
At == <<"@">>
n_leftpad == <<"l", "e", "f", "t", "-", "p", "a", "d">>
n_es == <<"e", "v", "e", "n", "t", "-", "s", "t", "r", "e", "a", "m">>
n_scoped == <<"@", "s", "/", "n">>
n_foo == <<"f", "o", "o">>
v_100 == <<"1", ".", "0", ".", "0">>
v_v100 == <<"v", "1", ".", "0", ".", "0">>
v_110 == <<"1", ".", "1", ".", "0">>
v_200 == <<"2", ".", "0", ".", "0">>
v_336 == <<"3", ".", "3", ".", "6">>
v_latest == <<"l", "a", "t", "e", "s", "t">>
Empty == <<>>

(***************************************************************************)
(* Compromised-spec index                                                  *)
(***************************************************************************)

\* a variant that splits at the first '@' instead of the last
SpecAtIndex_first(spec) == IndexOf(spec, "@")

\* const atIndex = spec.lastIndexOf('@')
SpecAtIndex(spec) == LastIndexOf(spec, "@")

\* one iteration of the loop over the specifiers
IndexStep(map, spec) ==
  LET atIndex == SpecAtIndex(spec) IN
  IF atIndex <= 0 THEN map
  ELSE LET name == Slice(spec, 0, atIndex)
           version == Slice(spec, atIndex + 1, Len(spec))
           withKey == IF MapHas(map, name) THEN map ELSE map @@ (name :> <<>>)
       IN [withKey EXCEPT ![name] = SetAdd(@, version)]

RECURSIVE IndexLoop(_, _, _)
IndexLoop(map, specs, i) ==
  IF i > Len(specs) THEN map
  ELSE IndexLoop(IndexStep(map, specs[i]), specs, i + 1)

\* export function buildCompromisedMap(specs)
buildCompromisedMap(specs) == IndexLoop(EmptyMap, specs, 1)

\* the same loop, inlined at the head of scanOrg
scanOrgCompromisedMap(compromisedSpecs) == IndexLoop(EmptyMap, compromisedSpecs, 1)

(***************************************************************************)
(* The fragment of node-semver used by the classifier: versions            *)
(* [v]MAJOR.MINOR.PATCH[-prerelease] and ranges made of comparator sets    *)
(* joined by '||', each set one of  *, X.Y.Z, =X.Y.Z, ^X.Y.Z, ~X.Y.Z,       *)
(* >=X.Y.Z.  Every other string is not a version, respectively not a       *)
(* range, of the fragment; the inputs below stay within strings on which   *)
(* the fragment and the library agree.                                     *)
(***************************************************************************)
\* a numeric identifier: digits without a leading zero
IsNumId(s) ==
  /\ s # <<>>
  /\ \A i \in 1..Len(s) : s[i] \in Digits
  /\ (Len(s) > 1 => s[1] # "0")

NoVersion == [ok |-> FALSE, major |-> 0, minor |-> 0, patch |-> 0, pre |-> <<>>]

\* the version of the matched MAJOR.MINOR.PATCH parts and prerelease
VersionOfParts(parts, pre, hasPre) ==
  IF /\ Len(parts) = 3
     /\ \A i \in 1..3 : IsNumId(parts[i])
     /\ (hasPre => pre # <<>> /\ " " \notin Range(pre) /\ "+" \notin Range(pre))
  THEN [ok |-> TRUE, major |-> NumVal(parts[1]), minor |-> NumVal(parts[2]),
        patch |-> NumVal(parts[3]), pre |-> pre]
  ELSE NoVersion

\* the version text split at its first '-' (0-based index dash, -1 when none)
ParseAt(plain, dash) ==
  VersionOfParts(Split(IF dash < 0 THEN plain ELSE Slice(plain, 0, dash), <<".">>),
                 IF dash < 0 THEN <<>> ELSE Slice(plain, dash + 1, Len(plain)),
                 dash >= 0)

ParsePlain(plain) == ParseAt(plain, IndexOf(plain, "-"))

\* new SemVer(version): the parsed version, ok = FALSE when it does not parse
ParseVersion(version) ==
  ParsePlain(IF version # <<>> /\ version[1] = "v" THEN Tail(version) ELSE version)

\* semver.valid(version), as a truth value
valid(version) == ParseVersion(version).ok

\* a.compareMain(b) >= 0
Gte(a, b) ==
  \/ a.major > b.major
  \/ a.major = b.major /\ a.minor > b.minor
  \/ a.major = b.major /\ a.minor = b.minor /\ a.patch >= b.patch

Lt(a, b) == ~Gte(a, b)

Ver(major, minor, patch) ==
  [ok |-> TRUE, major |-> major, minor |-> minor, patch |-> patch, pre |-> <<>>]

NoComparator == [ok |-> FALSE, op |-> "", v |-> NoVersion]

ComparatorOp(comp) ==
  IF comp = <<>> \/ comp = <<"*">> THEN "*"
  ELSE IF comp[1] = "^" THEN "^"
  ELSE IF comp[1] = "~" THEN "~"
  ELSE IF Len(comp) >= 2 /\ SubSeq(comp, 1, 2) = <<">", "=">> THEN ">="
  ELSE "="

ComparatorVersionText(comp) ==
  IF comp = <<>> \/ comp = <<"*">> THEN <<>>
  ELSE IF comp[1] \in {"^", "~", "="} THEN Tail(comp)
  ELSE IF Len(comp) >= 2 /\ SubSeq(comp, 1, 2) = <<">", "=">> THEN SubSeq(comp, 3, Len(comp))
  ELSE comp

MakeComparator(op, text, v) ==
  IF op = "*" THEN [ok |-> TRUE, op |-> "*", v |-> NoVersion]
  ELSE IF v.ok /\ v.pre = <<>> /\ text[1] # "v" THEN [ok |-> TRUE, op |-> op, v |-> v]
  ELSE NoComparator

\* new Comparator(comp) for one trimmed comparator set of the fragment
ParseComparator(comp) ==
  MakeComparator(ComparatorOp(comp), ComparatorVersionText(comp),
                 ParseVersion(ComparatorVersionText(comp)))

\* comparator.test(version) with includePrerelease off: a prerelease version
\* is matched by no comparator of the fragment
ComparatorTest(c, v) ==
  /\ v.pre = <<>>
  /\ CASE c.op = "*" -> TRUE
       [] c.op = "=" -> v.major = c.v.major /\ v.minor = c.v.minor /\ v.patch = c.v.patch
       [] c.op = ">=" -> Gte(v, c.v)
       [] c.op = "~" -> Gte(v, c.v) /\ Lt(v, Ver(c.v.major, c.v.minor + 1, 0))
       [] c.op = "^" ->
            /\ Gte(v, c.v)
            /\ IF c.v.major > 0 THEN Lt(v, Ver(c.v.major + 1, 0, 0))
               ELSE IF c.v.minor > 0 THEN Lt(v, Ver(0, c.v.minor + 1, 0))
               ELSE Lt(v, Ver(0, 0, c.v.patch + 1))

ParseParts(raw) == [i \in 1..Len(raw) |-> ParseComparator(Trim(raw[i]))]

\* the comparator sets of new Range(range): range.split('||'), each trimmed and parsed
RangeComparators(range) == ParseParts(Split(range, <<"|", "|">>))

AllOk(comparators) == \A i \in 1..Len(comparators) : comparators[i].ok

\* whether new Range(range) succeeds (it throws on any invalid comparator)
validRange(range) == AllOk(RangeComparators(range))

SatisfiesParsed(v, comparators) ==
  /\ v.ok
  /\ AllOk(comparators)
  /\ \E i \in 1..Len(comparators) : ComparatorTest(comparators[i], v)

\* semver.satisfies(version, range): false for an invalid version or range
satisfies(version, range) == SatisfiesParsed(ParseVersion(version), RangeComparators(range))

(***************************************************************************)
(* Lockfile check.  A parsed lockfile is [packages, dependencies]:         *)
(* packages is the sequence of <<installation path, [version]>> entries of *)
(* the flat map, dependencies the sequence of [name, version,              *)
(* dependencies] nodes of the recursive tree, both in key order.  An       *)
(* absent mapping is the empty sequence and an absent version the empty    *)
(* string: the code tests both only for truthiness.                        *)
(***************************************************************************)
NodeModulesSep == <<"n", "o", "d", "e", "_", "m", "o", "d", "u", "l", "e", "s", "/">>

\* a variant that compares versions as semantic versions
BadVersionsHas_semver(badVersions, version) ==
  \E i \in 1..Len(badVersions) :
     /\ valid(badVersions[i]) /\ valid(version)
     /\ ParseVersion(badVersions[i]) = ParseVersion(version)

\* badVersions.has(version): string equality with a member of the Set
BadVersionsHas(badVersions, version) == version \in Range(badVersions)

\* a variant that never finds a key in seen
SeenHas_never(seen, key) == FALSE

\* seen.has(key)
SeenHas(seen, key) == key \in seen

AddMatch(acc, name, version, key) ==
  [matches |-> Append(acc.matches, [name |-> name, version |-> version]),
   seen |-> acc.seen \cup {key}]

\* the body shared by both loops: record (name, version) when it is a new exact
\* match; only the flat-map loop requires a non-empty name
CheckPin(acc, name, version, requireName, compromisedMap) ==
  IF /\ (requireName => name # <<>>)
     /\ version # <<>>
     /\ MapHas(compromisedMap, name)
     /\ ~SeenHas(acc.seen, name \o At \o version)
    THEN IF BadVersionsHas(compromisedMap[name], version)
           THEN AddMatch(acc, name, version, name \o At \o version)
           ELSE acc
    ELSE acc

LastPart(parts) == parts[Len(parts)]

\* a variant that takes what follows the first 'node_modules/'
PathPackageName_afterFirst(path) ==
  IF ~Includes(path, NodeModulesSep) THEN path
  ELSE SubSeq(path, Len(Split(path, NodeModulesSep)[1]) + Len(NodeModulesSep) + 1, Len(path))

\* const parts = path.split('node_modules/'); const name = parts[parts.length - 1]
PathPackageName(path) == LastPart(Split(path, NodeModulesSep))

\* one entry of Object.entries(lockfile.packages)
CheckPackage(acc, path, pkg, compromisedMap) ==
  IF path = <<>> THEN acc
  ELSE CheckPin(acc, PathPackageName(path), pkg.version, TRUE, compromisedMap)

\* the loop over Object.entries(lockfile.packages)
RECURSIVE CheckPackages(_, _, _, _)
CheckPackages(acc, packages, i, compromisedMap) ==
  IF i > Len(packages) THEN acc
  ELSE CheckPackages(CheckPackage(acc, packages[i][1], packages[i][2], compromisedMap),
                     packages, i + 1, compromisedMap)

\* a variant that does not descend into the nested dependencies
RECURSIVE checkLockfileDepsV1_shallow(_, _, _, _)
checkLockfileDepsV1_shallow(acc, deps, i, compromisedMap) ==
  IF i > Len(deps) THEN acc
  ELSE checkLockfileDepsV1_shallow(
         CheckPin(acc, deps[i].name, deps[i].version, FALSE, compromisedMap),
         deps, i + 1, compromisedMap)

\* #checkLockfileDepsV1(deps, compromisedMap, matches, seen), from entry i on
RECURSIVE checkLockfileDepsV1(_, _, _, _)
checkLockfileDepsV1(acc, deps, i, compromisedMap) ==
  IF i > Len(deps) THEN acc
  ELSE checkLockfileDepsV1(
         checkLockfileDepsV1(
           CheckPin(acc, deps[i].name, deps[i].version, FALSE, compromisedMap),
           deps[i].dependencies, 1, compromisedMap),
         deps, i + 1, compromisedMap)

\* #checkLockfile(lockfile, compromisedMap): the matches
checkLockfile(lockfile, compromisedMap) ==
  checkLockfileDepsV1(
    CheckPackages([matches |-> <<>>, seen |-> {}], lockfile.packages, 1, compromisedMap),
    lockfile.dependencies, 1, compromisedMap).matches

(***************************************************************************)
(* Manifest check.  A parsed manifest is a record of the four dependency   *)
(* categories, each the sequence of <<name, range>> entries of the object  *)
(* in key order (the empty sequence when the category is absent).          *)
(***************************************************************************)
KeyIndex(obj, name) ==
  IF \E i \in 1..Len(obj) : obj[i][1] = name
    THEN CHOOSE i \in 1..Len(obj) : obj[i][1] = name
    ELSE 0

\* a variant that keeps every declaration instead of collapsing equal names
Spread_concat(acc, obj) == acc \o obj

\* { ...acc, ...obj }: a key of obj already in acc keeps its place and takes obj's value
RECURSIVE Spread(_, _)
Spread(acc, obj) ==
  IF obj = <<>> THEN acc
  ELSE LET name == obj[1][1]
           k == KeyIndex(acc, name)
       IN Spread(IF k = 0 THEN Append(acc, obj[1]) ELSE [acc EXCEPT ![k] = obj[1]],
                 Tail(obj))

\* const allDeps = {...dependencies, ...devDependencies, ...optional, ...peer}
AllDeps(packageJson) ==
  Spread(Spread(Spread(Spread(<<>>, packageJson.dependencies),
                       packageJson.devDependencies),
                packageJson.optionalDependencies),
         packageJson.peerDependencies)

\* a variant of the loop without the break: the last matching version wins
RECURSIVE MatchLoop_nobreak(_, _, _)
MatchLoop_nobreak(badVersions, range, i) ==
  IF i > Len(badVersions) THEN [semverMatched |-> FALSE, matchedVersion |-> <<>>]
  ELSE LET rest == MatchLoop_nobreak(badVersions, range, i + 1)
       IN IF rest.semverMatched THEN rest
          ELSE IF valid(badVersions[i]) /\ satisfies(badVersions[i], range)
            THEN [semverMatched |-> TRUE, matchedVersion |-> badVersions[i]]
          ELSE rest

\* for (const badVersion of badVersions) { if (valid && satisfies) { ...; break } }
RECURSIVE MatchLoop(_, _, _)
MatchLoop(badVersions, range, i) ==
  IF i > Len(badVersions) THEN [semverMatched |-> FALSE, matchedVersion |-> <<>>]
  ELSE IF valid(badVersions[i]) /\ satisfies(badVersions[i], range)
    THEN [semverMatched |-> TRUE, matchedVersion |-> badVersions[i]]
  ELSE MatchLoop(badVersions, range, i + 1)

\* Array.from(badVersions).slice(0, 3).join(', ')
VersionPreview(badVersions) ==
  Join(SubSeq(badVersions, 1, IF Len(badVersions) < 3 THEN Len(badVersions) ELSE 3),
       <<",", " ">>)

DangerEntry(name, range, matchedVersion) ==
  [name |-> name, range |-> range, matchedVersion |-> matchedVersion]

CautionEntry(name, range, badVersions) ==
  [name |-> name, range |-> range, compromisedVersions |-> VersionPreview(badVersions)]

\* the entry pushed after the loop over the compromised versions
EntryFor(name, range, badVersions, m) ==
  IF m.semverMatched
    THEN [tier |-> "danger", entry |-> DangerEntry(name, range, m.matchedVersion)]
    ELSE [tier |-> "caution", entry |-> CautionEntry(name, range, badVersions)]

NoEntry == [tier |-> "none", entry |-> <<>>]

\* a variant in which an invalid range escapes the entry without classifying it
ClassifyEntry_skipInvalid(name, range, compromisedMap) ==
  IF ~validRange(range) THEN NoEntry
  ELSE EntryFor(name, range, compromisedMap[name], MatchLoop(compromisedMap[name], range, 1))

\* the body of the loop over allDeps for a name of the index
ClassifyEntry(name, range, compromisedMap) ==
  EntryFor(name, range, compromisedMap[name], MatchLoop(compromisedMap[name], range, 1))

\* if (!compromisedMap.has(name)) continue
ClassifyDep(name, range, compromisedMap) ==
  IF MapHas(compromisedMap, name) THEN ClassifyEntry(name, range, compromisedMap)
  ELSE NoEntry

PushEntry(acc, e) ==
  CASE e.tier = "danger" -> [acc EXCEPT !.danger = Append(@, e.entry)]
    [] e.tier = "caution" -> [acc EXCEPT !.caution = Append(@, e.entry)]
    [] OTHER -> acc

RECURSIVE ClassifyLoop(_, _, _, _)
ClassifyLoop(acc, allDeps, i, compromisedMap) ==
  IF i > Len(allDeps) THEN acc
  ELSE ClassifyLoop(PushEntry(acc, ClassifyDep(allDeps[i][1], allDeps[i][2], compromisedMap)),
                    allDeps, i + 1, compromisedMap)

\* #checkPackageJsonAllLevels(packageJson, compromisedMap)
checkPackageJsonAllLevels(packageJson, compromisedMap) ==
  ClassifyLoop([danger |-> <<>>, caution |-> <<>>], AllDeps(packageJson), 1, compromisedMap)

(***************************************************************************)
(* File contents and the content endpoint.  A content is "empty" (the      *)
(* empty string), "invalid" (text JSON.parse rejects) or "json" with the   *)
(* parsed value.  A response of the content endpoint carries the HTTP      *)
(* status and, for 200, the entry type and the decoded content.            *)
(***************************************************************************)
NoValue == <<>>
EmptyContent == [kind |-> "empty", value |-> NoValue]
InvalidContent == [kind |-> "invalid", value |-> NoValue]
JsonContent(value) == [kind |-> "json", value |-> value]
NullContent == [kind |-> "null", value |-> NoValue]

FileResponse(content) == [status |-> 200, type |-> "file", content |-> content]
DirResponse == [status |-> 200, type |-> "dir", content |-> NullContent]
ErrorResponse(status) == [status |-> status, type |-> "error", content |-> NullContent]

\* getFileContent(repo, branch, path), given the response of repos.getContent:
\* the content, null for a non-file entry or a 404, and a throw otherwise
getFileContent(resp) ==
  IF resp.status = 200
    THEN IF resp.type # "file" THEN [kind |-> "return", content |-> NullContent, status |-> 200]
         ELSE [kind |-> "return", content |-> resp.content, status |-> 200]
    ELSE IF resp.status = 404
      THEN [kind |-> "return", content |-> NullContent, status |-> 404]
      ELSE [kind |-> "throw", content |-> NullContent, status |-> resp.status]

\* !content
Falsy(content) == content.kind \in {"null", "empty"}

PackageJsonName ==
  <<"p", "a", "c", "k", "a", "g", "e", ".", "j", "s", "o", "n">>
PackageLockName ==
  <<"p", "a", "c", "k", "a", "g", "e", "-", "l", "o", "c", "k", ".", "j", "s", "o", "n">>

\* packageJsonPath.replace(/\/package\.json$/, '')
StripManifestName(path) ==
  IF EndsWith(path, <<"/">> \o PackageJsonName)
    THEN SubSeq(path, 1, Len(path) - Len(PackageJsonName) - 1)
    ELSE path

\* the lockfile path computed at the head of scanPackageLocation
LockfilePath(packageJsonPath) ==
  LET dir == IF packageJsonPath = PackageJsonName THEN <<>>
             ELSE StripManifestName(packageJsonPath)
  IN IF dir # <<>> THEN dir \o <<"/">> \o PackageLockName ELSE PackageLockName

\* `Failed to parse ${path}: ${err.message}`; cause tells a JSON syntax error
\* from the message of a failed request
ParseError(path, cause) == [text |-> "Failed to parse", path |-> path, cause |-> cause]

\* the result record as first built by scanPackageLocation
NewResult(repo, branch, packageJsonPath) ==
  [repo |-> repo, branch |-> branch, path |-> packageJsonPath, lockfileFound |-> FALSE,
   critical |-> <<>>, danger |-> <<>>, caution |-> <<>>, errors |-> <<>>]

WithError(result, e) == [result EXCEPT !.errors = Append(@, e)]

\* a variant that goes on to the lockfile with the error recorded
ManifestOutcome_goesOn(result, got) ==
  IF got.kind = "throw"
    THEN [next |-> "result", packageJson |-> NoValue,
          result |-> WithError(result, ParseError(result.path, "request"))]
  ELSE IF Falsy(got.content)
    THEN [next |-> "null", packageJson |-> NoValue, result |-> result]
  ELSE IF got.content.kind = "invalid"
    THEN [next |-> "lockfile", packageJson |-> [dependencies |-> <<>>, devDependencies |-> <<>>, optionalDependencies |-> <<>>, peerDependencies |-> <<>>],
          result |-> WithError(result, ParseError(result.path, "syntax"))]
  ELSE [next |-> "lockfile", packageJson |-> got.content.value, result |-> result]

\* the first try block, given what getFileContent did
ManifestOutcome(result, got) ==
  IF got.kind = "throw"
    THEN [next |-> "result", packageJson |-> NoValue,
          result |-> WithError(result, ParseError(result.path, "request"))]
  ELSE IF Falsy(got.content)
    THEN [next |-> "null", packageJson |-> NoValue, result |-> result]
  ELSE IF got.content.kind = "invalid"
    THEN [next |-> "result", packageJson |-> NoValue,
          result |-> WithError(result, ParseError(result.path, "syntax"))]
  ELSE [next |-> "lockfile", packageJson |-> got.content.value, result |-> result]

\* scanPackageLocation up to its first return or to the lockfile request, given the
\* response to the manifest request:  next = "null" (returns null), "result"
\* (returns the error-bearing result) or "lockfile" (goes on with packageJson)
AfterManifest(result, resp) == ManifestOutcome(result, getFileContent(resp))

\* a variant that sets lockfileFound only once the lockfile has parsed
LockfileOutcome_foundWhenParsed(result, got, lockfilePath) ==
  IF got.kind = "throw"
    THEN [found |-> FALSE, lockfile |-> NoValue,
          result |-> WithError(result, ParseError(lockfilePath, "request"))]
  ELSE IF Falsy(got.content)
    THEN [found |-> FALSE, lockfile |-> NoValue, result |-> result]
  ELSE IF got.content.kind = "invalid"
    THEN [found |-> FALSE, lockfile |-> NoValue,
          result |-> WithError(result, ParseError(lockfilePath, "syntax"))]
  ELSE [found |-> TRUE, lockfile |-> got.content.value,
        result |-> [result EXCEPT !.lockfileFound = TRUE]]

\* a variant that swallows the syntax error of the lockfile
LockfileOutcome_silent(result, got, lockfilePath) ==
  IF got.kind = "throw"
    THEN [found |-> FALSE, lockfile |-> NoValue,
          result |-> WithError(result, ParseError(lockfilePath, "request"))]
  ELSE IF Falsy(got.content) \/ got.content.kind = "invalid"
    THEN [found |-> FALSE, lockfile |-> NoValue, result |-> result]
  ELSE [found |-> TRUE, lockfile |-> got.content.value,
        result |-> [result EXCEPT !.lockfileFound = TRUE]]

\* the second try block, given what getFileContent did: the result and the parsed
\* lockfile (found = FALSE when the variable lockfile stays undefined)
LockfileOutcome(result, got, lockfilePath) ==
  IF got.kind = "throw"
    THEN [found |-> FALSE, lockfile |-> NoValue,
          result |-> WithError(result, ParseError(lockfilePath, "request"))]
  ELSE IF Falsy(got.content)
    THEN [found |-> FALSE, lockfile |-> NoValue, result |-> result]
  ELSE IF got.content.kind = "invalid"
    THEN [found |-> FALSE, lockfile |-> NoValue,
          result |-> WithError([result EXCEPT !.lockfileFound = TRUE],
                               ParseError(lockfilePath, "syntax"))]
  ELSE [found |-> TRUE, lockfile |-> got.content.value,
        result |-> [result EXCEPT !.lockfileFound = TRUE]]

AfterLockfileFetch(result, resp) ==
  LockfileOutcome(result, getFileContent(resp), LockfilePath(result.path))

\* if (lockfile) result.critical = this.#checkLockfile(lockfile, compromisedMap)
WithCritical(fetched, compromisedMap) ==
  IF fetched.found
    THEN [fetched.result EXCEPT !.critical = checkLockfile(fetched.lockfile, compromisedMap)]
    ELSE fetched.result

\* a variant that drops the range findings of a name that has a critical finding
WithLevels_suppressCritical(result, levels) ==
  LET Kept(e) == \A i \in 1..Len(result.critical) : result.critical[i].name # e.name
  IN [result EXCEPT !.danger = SelectSeq(levels.danger, Kept),
                    !.caution = SelectSeq(levels.caution, Kept)]

WithLevels(result, levels) ==
  [result EXCEPT !.danger = levels.danger, !.caution = levels.caution]

\* scanPackageLocation from the lockfile response to its return
AfterLockfile(result, packageJson, resp, compromisedMap) ==
  WithLevels(WithCritical(AfterLockfileFetch(result, resp), compromisedMap),
             checkPackageJsonAllLevels(packageJson, compromisedMap))

(***************************************************************************)
(* Source enumerator and manifest locator                                  *)
(***************************************************************************)
b_main == <<"m", "a", "i", "n">>
b_master == <<"m", "a", "s", "t", "e", "r">>
b_dev == <<"d", "e", "v">>

\* const DEFAULT_BRANCH_PATTERNS = ['main', 'master', 'dev']
DEFAULT_BRANCH_PATTERNS == <<b_main, b_master, b_dev>>

\* const RELEASE_BRANCH_RE = /^\d+\.\d+$/ : digits, one dot, digits
RELEASE_BRANCH_RE(name) ==
  \E k \in 2..(Len(name) - 1) :
     /\ name[k] = "."
     /\ \A i \in 1..(k - 1) : name[i] \in Digits
     /\ \A i \in (k + 1)..Len(name) : name[i] \in Digits

\* a variant whose pattern is not anchored at the end: /^\d+\.\d+/
branchMatches_unanchored(name) ==
  \/ name \in Range(DEFAULT_BRANCH_PATTERNS)
  \/ \E n \in 3..Len(name) : RELEASE_BRANCH_RE(SubSeq(name, 1, n))

\* #branchMatches(name)
branchMatches(name) ==
  name \in Range(DEFAULT_BRANCH_PATTERNS) \/ RELEASE_BRANCH_RE(name)

\* the names of one page of branches that match, in page order
MatchingOf(data) == SelectSeq(data, branchMatches)

\* a response of a paginated listing: the page's items and whether a next page
\* follows, or a failure status
PageResponse(data, hasNext) == [status |-> 200, data |-> data, hasNext |-> hasNext]
PageFailure(status) == [status |-> status, data |-> <<>>, hasNext |-> FALSE]

\* a response of the tree endpoint: the entries [type, path] of the recursive tree
TreeResponse(tree) == [status |-> 200, tree |-> tree]
TreeFailure(status) == [status |-> status, tree |-> <<>>]

Blob(path) == [type |-> "blob", path |-> path]
Dir(path) == [type |-> "tree", path |-> path]

\* the filter predicate of findPackageJsonPaths
IsManifestBlob(item) ==
  /\ item.type = "blob"
  /\ EndsWith(item.path, PackageJsonName)
  /\ ~Includes(item.path, NodeModulesSep)

PathsOf(items) == [i \in 1..Len(items) |-> items[i].path]

\* a variant that takes only a 404 for an absent tree
findPackageJsonPaths_only404(resp) ==
  IF resp.status = 200
    THEN [kind |-> "return", paths |-> PathsOf(SelectSeq(resp.tree, IsManifestBlob)),
          status |-> 200]
  ELSE IF resp.status = 404
    THEN [kind |-> "return", paths |-> <<>>, status |-> resp.status]
  ELSE [kind |-> "throw", paths |-> <<>>, status |-> resp.status]

\* findPackageJsonPaths(repo, branch), given the response of git.getTree
findPackageJsonPaths(resp) ==
  IF resp.status = 200
    THEN [kind |-> "return", paths |-> PathsOf(SelectSeq(resp.tree, IsManifestBlob)),
          status |-> 200]
  ELSE IF resp.status = 404 \/ resp.status = 409
    THEN [kind |-> "return", paths |-> <<>>, status |-> resp.status]
  ELSE [kind |-> "throw", paths |-> <<>>, status |-> resp.status]

(***************************************************************************)
(* Scan orchestrator.  scan is the activation of scanOrg with the calls it *)
(* awaits: pc is the request it is suspended on, the other fields are the  *)
(* locals of scanOrg, listRepos, listMatchingBranches, scanBranch and      *)
(* scanPackageLocation.  listed and listEnd record, for the listing of the *)
(* current repository, every branch name received and how the listing      *)
(* ended; progress records the events of the two loop heads of scanOrg,    *)
(* onProgress the observer scanOrg was called with and notified the calls  *)
(* the observer received; visited records                                  *)
(* the locations scanPackageLocation was called for, tree the entries of   *)
(* the last tree received and treeAnswers the number of trees received;    *)
(* outstanding counts the requests sent and not yet answered.              *)
(***************************************************************************)
\* the observers scanOrg may be called with: none, or one that returns false
NoObserver == "none"
Observers == {NoObserver, "returns_false"}

\* a request is sent to the service; the awaited response arrives
Sent(s) == [s EXCEPT !.outstanding = @ + 1]
Received(s) == [s EXCEPT !.outstanding = @ - 1]

\* if (onProgress) onProgress(event): the value the call returns is dropped
Notify(s, event) ==
  IF s.onProgress # NoObserver THEN Append(s.notified, event) ELSE s.notified

RepoEvent(name) == [type |-> "repo", name |-> name, branch |-> <<>>]
BranchEvent(repo, branch) == [type |-> "branch", name |-> repo, branch |-> branch]

\* scanOrg returns results
ReturnResults(s) == [s EXCEPT !.pc = "done", !.outcome = "returned"]

\* an error propagates out of scanOrg
Throw(s, status) ==
  [s EXCEPT !.pc = "done", !.outcome = "failed", !.error = status,
            !.thrown = "HttpError", !.results = <<>>, !.branchResults = <<>>]

\* a TypeError raised by the scanning code propagates out of scanOrg
ThrowTypeError(s) ==
  [s EXCEPT !.pc = "done", !.outcome = "failed", !.thrown = "TypeError",
            !.results = <<>>, !.branchResults = <<>>]

\* for (const repo of repos): onProgress, then the first branch page is requested
EnterRepo(s, i) ==
  [s EXCEPT !.repoIdx = i, !.progress = Append(@, RepoEvent(s.repos[i])),
            !.notified = Notify(s, RepoEvent(s.repos[i])),
            !.pc = "listBranches", !.branches = <<>>, !.listed = <<>>,
            !.listEnd = "open", !.page = 1, !.branchIdx = 0,
            !.outstanding = @ + 1]

NextRepo(s) ==
  IF s.repoIdx < Len(s.repos) THEN EnterRepo(s, s.repoIdx + 1) ELSE ReturnResults(s)

\* a variant that enters a branch without telling the observer
EnterBranch_silent(s, j) ==
  [s EXCEPT !.branchIdx = j,
            !.progress = Append(@, BranchEvent(s.repos[s.repoIdx], s.branches[j])),
            !.pc = "getTree", !.paths = <<>>, !.pathIdx = 0, !.branchResults = <<>>,
            !.outstanding = @ + 1]

\* for (const branch of branches): onProgress, then scanBranch requests the tree
EnterBranch(s, j) ==
  [s EXCEPT !.branchIdx = j,
            !.progress = Append(@, BranchEvent(s.repos[s.repoIdx], s.branches[j])),
            !.notified = Notify(s, BranchEvent(s.repos[s.repoIdx], s.branches[j])),
            !.pc = "getTree", !.paths = <<>>, !.pathIdx = 0, !.branchResults = <<>>,
            !.outstanding = @ + 1]

NextBranch(s) ==
  IF s.branchIdx < Len(s.branches) THEN EnterBranch(s, s.branchIdx + 1) ELSE NextRepo(s)

\* a variant that puts the results of a branch before the earlier ones
PushBranchResults_unshift(s) ==
  [s EXCEPT !.results = s.branchResults \o @, !.branchResults = <<>>]

\* results.push(...branchResults)
PushBranchResults(s) ==
  [s EXCEPT !.results = @ \o s.branchResults, !.branchResults = <<>>]

\* for (const path of packageJsonPaths): scanPackageLocation requests the manifest
EnterPath(s, k) ==
  [s EXCEPT !.pathIdx = k, !.pc = "getManifest", !.packageJson = NoValue,
            !.result = NewResult(s.repos[s.repoIdx], s.branches[s.branchIdx], s.paths[k]),
            !.visited = Append(@, <<s.repos[s.repoIdx], s.branches[s.branchIdx], s.paths[k]>>),
            !.outstanding = @ + 1]

NextPath(s) ==
  IF s.pathIdx < Len(s.paths) THEN EnterPath(s, s.pathIdx + 1)
  ELSE NextBranch(PushBranchResults(s))

\* if (result) results.push(result)
PushResult(s, result) == [s EXCEPT !.branchResults = Append(@, result)]

\* a variant that requests the branches of all the repositories at once
OnReposPage_allAtOnce(s, resp) ==
  IF resp.status # 200 THEN Throw(Received(s), resp.status)
  ELSE IF resp.hasNext
    THEN Sent([Received(s) EXCEPT !.repos = @ \o resp.data, !.page = @ + 1])
  ELSE [NextRepo([Received(s) EXCEPT !.repos = @ \o resp.data]) EXCEPT
          !.outstanding = Len(s.repos \o resp.data)]

\* listRepos: a page of the repository listing arrives
OnReposPage(s, resp) ==
  IF resp.status # 200 THEN Throw(Received(s), resp.status)
  ELSE IF resp.hasNext
    THEN Sent([Received(s) EXCEPT !.repos = @ \o resp.data, !.page = @ + 1])
  ELSE NextRepo([Received(s) EXCEPT !.repos = @ \o resp.data])

\* the catch of listMatchingBranches, then return branches
BranchListingFailed(s, status) ==
  IF status # 404 /\ status # 409 THEN Throw(s, status)
  ELSE NextBranch([s EXCEPT !.listEnd = "absent"])

\* listMatchingBranches: a page of the branch listing arrives
OnBranchesPage(s, resp) ==
  IF resp.status # 200 THEN BranchListingFailed(Received(s), resp.status)
  ELSE IF resp.hasNext
    THEN Sent([Received(s) EXCEPT !.branches = @ \o MatchingOf(resp.data),
                                  !.listed = @ \o resp.data, !.page = @ + 1])
  ELSE NextBranch([Received(s) EXCEPT !.branches = @ \o MatchingOf(resp.data),
                                      !.listed = @ \o resp.data, !.listEnd = "exhausted"])

\* scanBranch: findPackageJsonPaths returns or throws
OnPaths(s, found) ==
  IF found.kind = "throw" THEN Throw(s, found.status)
  ELSE NextPath([s EXCEPT !.paths = found.paths])

OnTree(s, resp) ==
  OnPaths([Received(s) EXCEPT !.treeAnswers = @ + 1, !.tree = resp.tree],
          findPackageJsonPaths(resp))

\* scanPackageLocation after the manifest request
OnManifestOutcome(s, a) ==
  CASE a.next = "null" -> NextPath(s)
    [] a.next = "result" -> NextPath(PushResult(s, a.result))
    [] a.next = "lockfile" ->
         Sent([s EXCEPT !.pc = "getLockfile", !.packageJson = a.packageJson,
                        !.result = a.result])

OnManifest(s, resp) == OnManifestOutcome(Received(s), AfterManifest(s.result, resp))

\* the JSON value null, as a manifest or as the entry of a lockfile's packages
JsonNull == [json |-> "null"]

\* pkg.version is read of an entry that is null (the root entry is skipped first)
ReadsNullEntry(lockfile) ==
  \E i \in 1..Len(lockfile.packages) :
     lockfile.packages[i][1] # <<>> /\ lockfile.packages[i][2] = JsonNull

\* whether #checkLockfile or #checkPackageJsonAllLevels raises a TypeError:
\* lines 163 and 167 are outside the try blocks
RaisesTypeError(fetched, packageJson) ==
  \/ fetched.found /\ ReadsNullEntry(fetched.lockfile)
  \/ packageJson = JsonNull

\* scanPackageLocation from line 161 to its return, given the findings of the two
\* checks: the TypeError, or the result to push
OnScanTail(s, raises, fetched, critical, levels) ==
  IF raises THEN ThrowTypeError(s)
  ELSE NextPath(PushResult(s, WithLevels(
         IF fetched.found THEN [fetched.result EXCEPT !.critical = critical]
         ELSE fetched.result, levels)))

\* scanPackageLocation after the second try block; checks tabulates
\* #checkLockfile and #checkPackageJsonAllLevels for s.compromisedMap
OnLockfileFetched(s, fetched, checks) ==
  IF RaisesTypeError(fetched, s.packageJson)
    THEN ThrowTypeError(s)
    ELSE OnScanTail(s, FALSE, fetched,
                    IF fetched.found THEN checks.critical[fetched.lockfile] ELSE <<>>,
                    checks.levels[s.packageJson])

\* scanPackageLocation after the lockfile request
OnLockfile(s, resp, checks) ==
  OnLockfileFetched(Received(s), AfterLockfileFetch(s.result, resp), checks)

\* whether a response is a failure that is neither not-found nor conflict
HardFailure(resp) == resp.status # 200 /\ resp.status # 404 /\ resp.status # 409

(***************************************************************************)
(* Rate-limit handlers of the throttled client.  A rate-limited response   *)
(* reaches the handler of its kind with the server-provided retryAfter and *)
(* the number of retries the request has had so far (retryCount, 0 for the *)
(* first signal); the request is sent again after the wait when the        *)
(* handler returns true, and fails with the rate-limit status otherwise.   *)
(***************************************************************************)
Primary == "rate-limit"
Secondary == "secondary-rate-limit"
RateLimitStatus == {403}

\* the argument of this.onRateLimit
RateLimitEvent(type, retryAfter, retryCount) ==
  [type |-> type, retryAfter |-> retryAfter, retryCount |-> retryCount]

\* a variant that reports to the observer only the signals that are retried
NotifyObserver_onlyRetried(hasObserver, calls, event) ==
  IF hasObserver /\ event.retryCount < 3 THEN Append(calls, event) ELSE calls

\* if (this.onRateLimit) this.onRateLimit({ type, retryAfter, retryCount })
NotifyObserver(hasObserver, calls, event) ==
  IF hasObserver THEN Append(calls, event) ELSE calls

\* a variant with an inclusive ceiling
onRateLimit_inclusive(retryCount) == retryCount <= 5

\* throttle.onRateLimit: the value returned
onRateLimit(retryCount) == retryCount < 5

\* throttle.onSecondaryRateLimit: the value returned
onSecondaryRateLimit(retryCount) == retryCount < 3

\* a variant in which the count of retries starts over after the second
RetryCountAfter_wraps(retryCount) == (retryCount + 1) % 3

\* the retryCount the next signal of the request is handled with
RetryCountAfter(retryCount) == retryCount + 1

\* the handler the client calls for a signal of the kind
WantRetry(kind, retryCount) ==
  IF kind = Primary THEN onRateLimit(retryCount) ELSE onSecondaryRateLimit(retryCount)

(***************************************************************************)
(* Bounds                                                                  *)
(***************************************************************************)
MaxSpecs == 3
MaxDecls == 2
MaxPkgs == 2
MaxDepth == 2
MaxPages == 2
MaxRequests == 7
LivePages == 2

VARIABLES ix_pc, ix_specs, ix_map, ix_scanMap,
          loc_pc, loc_path, loc_specs, loc_map, loc_manifestResp, loc_lockResp,
          loc_packageJson, loc_result,
          scan, requests, hardFailure, svc, retryCount, last,
          thr_pc, thr_hasObserver, thr_retryCount, thr_sent, thr_signal,
          thr_signals, thr_calls, thr_decisions,
          cc_pc, cc_specs, cc_checks, cc_results, cc_log

ix_vars == <<ix_pc, ix_specs, ix_map, ix_scanMap>>
loc_vars == <<loc_pc, loc_path, loc_specs, loc_map, loc_manifestResp, loc_lockResp,
              loc_packageJson, loc_result>>
org_vars == <<scan, requests, hardFailure, svc, retryCount, last>>
thr_vars == <<thr_pc, thr_hasObserver, thr_retryCount, thr_sent, thr_signal,
              thr_signals, thr_calls, thr_decisions>>
cc_vars == <<cc_pc, cc_specs, cc_checks, cc_results, cc_log>>
vars == <<ix_vars, loc_vars, org_vars, thr_vars, cc_vars>>

SeqsUpTo(S, n) == UNION {[1..k -> S] : k \in 0..n}

(***************************************************************************)
(* Inputs of the location scan                                             *)
(***************************************************************************)
r_caret1 == <<"^", "1", ".", "0", ".", "0">>
r_caret2 == <<"^", "2", ".", "0", ".", "0">>
r_caret3 == <<"^", "3", ".", "0", ".", "0">>
Or == <<" ", "|", "|", " ">>
r_1or2 == r_caret1 \o Or \o r_caret2
r_2or3 == r_caret2 \o Or \o r_caret3
r_invalid == <<"n", "o", "t", " ", "a", " ", "r", "a", "n", "g", "e">>
r_1orInvalid == r_caret1 \o Or \o v_latest

p_root == PackageJsonName
p_workspace == <<"p", "k", "g", "s", "/", "a", "/">> \o PackageJsonName

\* the specifier lists the index is built from
IndexLists ==
  { <<n_es \o At \o v_336>>,
    <<n_leftpad \o At \o v_100, n_leftpad \o At \o v_110, n_scoped \o At \o v_100>>,
    <<n_leftpad \o At \o v_110, n_leftpad \o At \o v_100, n_es \o At \o v_336>>,
    <<n_leftpad \o At \o v_latest, n_leftpad \o At \o v_v100, n_foo \o At \o v_200,
      n_es \o At \o v_336>>,
    <<n_leftpad \o At \o v_110>> }

Categories == {"dependencies", "devDependencies", "peerDependencies"}
DeclPool ==
  [cat : Categories, name : {n_leftpad, n_es}, range : {r_caret1, r_2or3, r_invalid}]

CategoryOf(decls, cat) ==
  LET InCat(d) == d.cat = cat
      sel == SelectSeq(decls, InCat)
  IN [i \in 1..Len(sel) |-> <<sel[i].name, sel[i].range>>]

ManifestOf(decls) ==
  [dependencies |-> CategoryOf(decls, "dependencies"),
   devDependencies |-> CategoryOf(decls, "devDependencies"),
   optionalDependencies |-> CategoryOf(decls, "optionalDependencies"),
   peerDependencies |-> CategoryOf(decls, "peerDependencies")]

\* the manifests declaring up to n dependencies, no name twice in one category
Manifests(n) ==
  { ManifestOf(ds) : ds \in { d \in SeqsUpTo(DeclPool, n) :
        \A i, j \in 1..Len(d) : (d[i].cat = d[j].cat /\ d[i].name = d[j].name) => i = j } }

Deps(entries) ==
  [dependencies |-> entries, devDependencies |-> <<>>,
   optionalDependencies |-> <<>>, peerDependencies |-> <<>>]

SmallManifests ==
  { Deps(<<<<n_es, r_caret3>>>>),
    Deps(<<<<n_foo, r_1or2>>, <<n_leftpad, r_1orInvalid>>>>),
    [dependencies |-> <<<<n_leftpad, r_caret1>>>>, devDependencies |-> <<>>,
     optionalDependencies |-> <<<<n_leftpad, r_caret2>>, <<n_foo, r_caret1>>>>,
     peerDependencies |-> <<>>] }

Pkg(version) == [version |-> version]
nm(name) == NodeModulesSep \o name

PkgPool ==
  { <<Empty, Pkg(v_100)>>,
    <<nm(n_leftpad), Pkg(v_100)>>,
    <<nm(n_es) \o <<"/">> \o nm(n_leftpad), Pkg(v_100)>>,
    <<nm(n_foo) \o <<"/">> \o nm(n_leftpad), Pkg(v_110)>>,
    <<nm(n_es), Pkg(v_336)>>,
    <<nm(n_scoped), Pkg(v_100)>>,
    <<NodeModulesSep, Pkg(v_100)>>,
    <<nm(n_foo), Pkg(Empty)>> }

\* the flat maps of up to n entries, no path twice
Packages(n) ==
  { ps \in SeqsUpTo(PkgPool, n) : \A i, j \in 1..Len(ps) : ps[i][1] = ps[j][1] => i = j }

Node(name, version, dependencies) ==
  [name |-> name, version |-> version, dependencies |-> dependencies]

NodeLabels == {<<n_leftpad, v_100>>, <<n_leftpad, Empty>>, <<n_es, v_336>>, <<n_es, v_100>>}

\* the trees of one package per level, down to depth d
RECURSIVE Chains(_)
Chains(d) ==
  IF d = 0 THEN {<<>>}
  ELSE {<<>>} \cup { <<Node(l[1], l[2], t)>> : l \in NodeLabels, t \in Chains(d - 1) }

\* the trees of up to two top-level packages, down to depth d
TopTrees(d) ==
  IF d = 0 THEN {<<>>}
  ELSE LET nodes == { Node(l[1], l[2], t) : l \in NodeLabels, t \in Chains(d - 1) }
       IN {<<>>} \cup { <<x>> : x \in nodes }
            \cup { <<xy[1], xy[2]>> : xy \in { q \in nodes \X nodes : q[1].name # q[2].name } }

Lockfile(packages, dependencies) == [packages |-> packages, dependencies |-> dependencies]

SmallPackages ==
  { <<>>, <<<<nm(n_leftpad), Pkg(v_100)>>, <<nm(n_es), Pkg(v_336)>>>> }

SmallTrees ==
  { <<>>,
    <<Node(n_es, v_336, <<Node(n_leftpad, v_100, <<>>)>>), Node(n_leftpad, v_100, <<>>)>> }

HttpFailures == {401, 404, 409, 500}

ManifestResponses ==
  { FileResponse(JsonContent(m)) : m \in SmallManifests }
    \cup { FileResponse(EmptyContent), FileResponse(InvalidContent), DirResponse }
    \cup { ErrorResponse(st) : st \in HttpFailures }

LockResponses ==
  { FileResponse(JsonContent(Lockfile(ps, t))) : ps \in SmallPackages, t \in SmallTrees }
    \cup { FileResponse(EmptyContent), FileResponse(InvalidContent), DirResponse }
    \cup { ErrorResponse(st) : st \in HttpFailures }

(***************************************************************************)
(* Specification of scanPackageLocation: the specifier list, the manifest  *)
(* path and the two responses of the content endpoint are the inputs       *)
(***************************************************************************)
LocationIdle ==
  /\ loc_pc = "idle"
  /\ loc_path = <<>>
  /\ loc_specs = <<>>
  /\ loc_map = EmptyMap
  /\ loc_manifestResp = ErrorResponse(404)
  /\ loc_lockResp = ErrorResponse(404)
  /\ loc_packageJson = NoValue
  /\ loc_result = NewResult("", "", <<>>)

LocationInputs ==
  \/ /\ loc_path = p_root
     /\ loc_manifestResp \in { FileResponse(JsonContent(m)) : m \in Manifests(MaxDecls) }
     /\ loc_lockResp = ErrorResponse(404)
  \/ /\ loc_path = p_root
     /\ loc_manifestResp = FileResponse(JsonContent(Deps(<<<<n_es, r_caret3>>>>)))
     /\ loc_lockResp \in { FileResponse(JsonContent(Lockfile(ps, t))) :
                              ps \in SmallPackages, t \in TopTrees(MaxDepth) }
  \/ /\ loc_path = p_root
     /\ loc_manifestResp = FileResponse(JsonContent(Deps(<<<<n_es, r_caret3>>>>)))
     /\ loc_lockResp \in { FileResponse(JsonContent(Lockfile(ps, t))) :
                              ps \in Packages(MaxPkgs), t \in SmallTrees }
  \/ /\ loc_path \in {p_root, p_workspace}
     /\ loc_manifestResp \in ManifestResponses
     /\ loc_lockResp \in LockResponses

LocationInit ==
  /\ loc_pc = "manifest"
  /\ loc_specs \in IndexLists
  /\ loc_map = scanOrgCompromisedMap(loc_specs)
  /\ LocationInputs
  /\ loc_packageJson = NoValue
  /\ loc_result = NewResult("repo", "main", loc_path)

\* the manifest request returns
LocGetManifest ==
  /\ loc_pc = "manifest"
  /\ LET a == AfterManifest(loc_result, loc_manifestResp) IN
       /\ loc_pc' = CASE a.next = "lockfile" -> "lockfile"
                       [] a.next = "null" -> "returned_null"
                       [] a.next = "result" -> "returned_parse_error"
       /\ loc_packageJson' = a.packageJson
       /\ loc_result' = a.result
  /\ UNCHANGED <<loc_path, loc_specs, loc_map, loc_manifestResp, loc_lockResp, ix_vars, org_vars, thr_vars, cc_vars>>

\* the lockfile request returns; the findings are computed and the result returned
LocGetLockfile ==
  /\ loc_pc = "lockfile"
  /\ loc_result' = AfterLockfile(loc_result, loc_packageJson, loc_lockResp, loc_map)
  /\ loc_pc' = "returned_result"
  /\ UNCHANGED <<loc_path, loc_specs, loc_map, loc_manifestResp, loc_lockResp,
                 loc_packageJson, ix_vars, org_vars, thr_vars, cc_vars>>

(***************************************************************************)
(* Specification of the index builders: the specifier list is the input    *)
(***************************************************************************)
SpecifierPool ==
  { n_leftpad \o At \o v_100, n_leftpad \o At \o v_110, n_scoped \o At \o v_100,
    n_scoped, n_leftpad, n_leftpad \o At, At \o v_100,
    n_leftpad \o At \o v_100 \o At \o v_110 }

IndexIdle ==
  /\ ix_pc = "idle"
  /\ ix_specs = <<>>
  /\ ix_map = EmptyMap
  /\ ix_scanMap = EmptyMap

IndexInit ==
  /\ ix_pc = "start"
  /\ ix_specs \in SeqsUpTo(SpecifierPool, MaxSpecs)
  /\ ix_map = EmptyMap
  /\ ix_scanMap = EmptyMap

BuildIndex ==
  /\ ix_pc = "start"
  /\ ix_map' = buildCompromisedMap(ix_specs)
  /\ ix_scanMap' = scanOrgCompromisedMap(ix_specs)
  /\ ix_pc' = "built"
  /\ UNCHANGED <<ix_specs, loc_vars, org_vars, thr_vars, cc_vars>>

(***************************************************************************)
(* Specification of scanOrg: the responses of the service are chosen as    *)
(* the requests complete                                                   *)
(***************************************************************************)
b_release == <<"1", "2", ".", "3">>
b_feature == <<"f", "e", "a", "t", "u", "r", "e", "/", "x">>
b_three == <<"1", ".", "2", ".", "3">>
b_dashed == <<"r", "e", "l", "e", "a", "s", "e", "-", "1", ".", "2">>

RepoPages == { <<"r1">>, <<"r2">>, <<>> }
BranchPages == { <<b_main, b_feature>>, <<b_three, b_release>>, <<b_dashed>> }
ListFailures == {404, 409, 500}

p_vendored == nm(n_foo) \o <<"/">> \o PackageJsonName
\* xpackage.json and xnode_modules/package.json
p_suffixed == <<"x">> \o PackageJsonName
p_lookalike == <<"x">> \o NodeModulesSep \o PackageJsonName
TreePool ==
  { <<Blob(p_root), Dir(<<"p", "k", "g", "s">>), Blob(p_vendored), Blob(p_workspace)>>,
    <<Blob(p_root)>>,
    <<Blob(p_lookalike), Blob(p_suffixed)>> }

OrgSpecs == <<n_es \o At \o v_336>>
OrgManifest == Deps(<<<<n_es, r_caret3>>>>)
OrgLockfile == Lockfile(<<<<nm(n_es), Pkg(v_336)>>>>, <<>>)
NullEntryLockfile == Lockfile(<<<<nm(n_es), JsonNull>>>>, <<>>)

\* the index scanOrg builds of OrgSpecs, and the two checks of scanPackageLocation
\* for each manifest and each lockfile the service may hold
OrgIndex == scanOrgCompromisedMap(OrgSpecs)
OrgChecks ==
  [critical |-> [l \in {OrgLockfile} |-> checkLockfile(l, OrgIndex)],
   levels |-> [m \in {OrgManifest} |-> checkPackageJsonAllLevels(m, OrgIndex)]]

OrgManifestResponses ==
  { FileResponse(JsonContent(OrgManifest)), FileResponse(InvalidContent),
    FileResponse(JsonContent(JsonNull)), FileResponse(EmptyContent),
    ErrorResponse(404), ErrorResponse(500) }
OrgLockResponses ==
  { FileResponse(JsonContent(OrgLockfile)), FileResponse(JsonContent(NullEntryLockfile)),
    FileResponse(InvalidContent), ErrorResponse(404), ErrorResponse(500) }

\* the service scanOrg runs against: the answers it may give, the number of
\* pages a listing may have, and whether its answers count against MaxRequests
FullService ==
  [branchPages |-> BranchPages, trees |-> TreePool,
   failures |-> ListFailures, manifests |-> OrgManifestResponses,
   lockfiles |-> OrgLockResponses, repoPages |-> RepoPages,
   repoListingPages |-> MaxPages, branchListingPages |-> MaxPages, counted |-> TRUE]

\* a service small enough for every scan to run to its end: two repositories
\* a page, one page of branches a repository
SmallService ==
  [branchPages |-> { <<b_main, b_feature>> },
   trees |-> { <<Blob(p_root)>> }, failures |-> {500},
   manifests |-> { FileResponse(JsonContent(OrgManifest)) },
   lockfiles |-> { ErrorResponse(404) }, repoPages |-> { <<"r1", "r2">> },
   repoListingPages |-> LivePages, branchListingPages |-> 1, counted |-> FALSE]

NewScan ==
  [pc |-> "idle", outcome |-> "running", error |-> 0, thrown |-> "none",
   compromisedMap |-> EmptyMap,
   repos |-> <<>>, repoIdx |-> 0, page |-> 0,
   branches |-> <<>>, listed |-> <<>>, listEnd |-> "open", branchIdx |-> 0,
   paths |-> <<>>, pathIdx |-> 0, packageJson |-> NoValue,
   result |-> NewResult("", <<>>, <<>>), branchResults |-> <<>>, results |-> <<>>,
   progress |-> <<>>, visited |-> <<>>, treeAnswers |-> 0, tree |-> <<>>,
   onProgress |-> NoObserver, notified |-> <<>>, outstanding |-> 0]

NoAnswer == [req |-> "none", status |-> 0, kind |-> "none"]

OrgIdle ==
  /\ scan = [NewScan EXCEPT !.pc = "off"]
  /\ requests = 0
  /\ hardFailure = FALSE
  /\ svc = FullService
  /\ retryCount = 0
  /\ last = NoAnswer

OrgInit ==
  /\ scan = NewScan
  /\ requests = 0
  /\ hardFailure = FALSE
  /\ svc = FullService
  /\ retryCount = 0
  /\ last = NoAnswer

OrgLiveInit ==
  /\ scan = NewScan
  /\ requests = 0
  /\ hardFailure = FALSE
  /\ svc = SmallService
  /\ retryCount = 0
  /\ last = NoAnswer

\* the pages a listing may still be followed to
PageResponses(pool, pages) ==
  { PageResponse(d, n) : d \in pool, n \in {h \in BOOLEAN : h => scan.page < pages} }
    \cup { PageFailure(st) : st \in svc.failures }

\* what a response of the content endpoint holds
ContentKind(resp) ==
  IF resp.status # 200 THEN "none"
  ELSE IF resp.type # "file" THEN "dir"
  ELSE IF resp.content.kind = "json" /\ resp.content.value = JsonNull THEN "json-null"
  ELSE resp.content.kind

\* a request completes with resp: the answer is recorded in last
Completes(resp, kind) ==
  /\ svc.counted => requests < MaxRequests
  /\ requests' = IF svc.counted THEN requests + 1 ELSE requests
  /\ hardFailure' = (hardFailure \/ HardFailure(resp))
  /\ last' = [req |-> scan.pc, status |-> resp.status, kind |-> kind]
  /\ retryCount' = 0
  /\ svc' = svc

\* scanOrg(compromisedSpecs, onProgress) is called: the index is built and the
\* first page of repositories requested
ScanOrgStart ==
  /\ scan.pc = "idle"
  /\ \E observer \in Observers :
        scan' = [scan EXCEPT !.pc = "listRepos", !.page = 1,
                             !.compromisedMap = OrgIndex, !.onProgress = observer,
                             !.outstanding = @ + 1]
  /\ UNCHANGED <<requests, hardFailure, svc, retryCount, last, ix_vars, loc_vars, thr_vars, cc_vars>>

ListReposPage ==
  /\ scan.pc = "listRepos"
  /\ \E resp \in PageResponses(svc.repoPages, svc.repoListingPages) :
        /\ Completes(resp, "page")
        /\ scan' = OnReposPage(scan, resp)
  /\ UNCHANGED <<ix_vars, loc_vars, thr_vars, cc_vars>>

ListBranchesPage ==
  /\ scan.pc = "listBranches"
  /\ \E resp \in PageResponses(svc.branchPages, svc.branchListingPages) :
        /\ Completes(resp, "page")
        /\ scan' = OnBranchesPage(scan, resp)
  /\ UNCHANGED <<ix_vars, loc_vars, thr_vars, cc_vars>>

GetTree ==
  /\ scan.pc = "getTree"
  /\ \E resp \in { TreeResponse(t) : t \in svc.trees }
                   \cup { TreeFailure(st) : st \in svc.failures } :
        /\ Completes(resp, "tree")
        /\ scan' = OnTree(scan, resp)
  /\ UNCHANGED <<ix_vars, loc_vars, thr_vars, cc_vars>>

GetManifest ==
  /\ scan.pc = "getManifest"
  /\ \E resp \in svc.manifests :
        /\ Completes(resp, ContentKind(resp))
        /\ scan' = OnManifest(scan, resp)
  /\ UNCHANGED <<ix_vars, loc_vars, thr_vars, cc_vars>>

GetLockfile ==
  /\ scan.pc = "getLockfile"
  /\ \E resp \in svc.lockfiles :
        /\ Completes(resp, ContentKind(resp))
        /\ scan' = OnLockfile(scan, resp, OrgChecks)
  /\ UNCHANGED <<ix_vars, loc_vars, thr_vars, cc_vars>>

Pending == scan.pc \in {"listRepos", "listBranches", "getTree", "getManifest", "getLockfile"}

\* the awaited request fails with status
RequestFails(s, status) ==
  CASE s.pc = "listRepos" -> OnReposPage(s, PageFailure(status))
    [] s.pc = "listBranches" -> OnBranchesPage(s, PageFailure(status))
    [] s.pc = "getTree" -> OnTree(s, TreeFailure(status))
    [] s.pc = "getManifest" -> OnManifest(s, ErrorResponse(status))
    [] s.pc = "getLockfile" -> OnLockfile(s, ErrorResponse(status), OrgChecks)

\* the awaited request is rate-limited and its handler grants a retry: the
\* request is sent again after the wait
RateLimitRetry ==
  /\ Pending
  /\ \E kind \in {Primary, Secondary} : WantRetry(kind, retryCount)
  /\ retryCount' = RetryCountAfter(retryCount)
  /\ UNCHANGED <<scan, requests, hardFailure, svc, last, ix_vars, loc_vars, thr_vars, cc_vars>>

\* the awaited request is rate-limited and its handler gives it up: the request
\* fails with the status of the rate-limited response
RateLimitGiveUp ==
  /\ Pending
  /\ \E kind \in {Primary, Secondary}, status \in RateLimitStatus :
        /\ ~WantRetry(kind, retryCount)
        /\ Completes(ErrorResponse(status), "rate-limit")
        /\ scan' = RequestFails(scan, status)
  /\ UNCHANGED <<ix_vars, loc_vars, thr_vars, cc_vars>>

(***************************************************************************)
(* Specification of one throttled request: the service answers each send   *)
(* with a result or with a rate-limit signal                               *)
(***************************************************************************)
RetryAfters == {1, 60}
NoSignal == [kind |-> "none", retryAfter |-> 0]

ThrottleIdle ==
  /\ thr_pc = "off"
  /\ thr_hasObserver = FALSE
  /\ thr_retryCount = 0
  /\ thr_sent = 0
  /\ thr_signal = NoSignal
  /\ thr_signals = <<>>
  /\ thr_calls = <<>>
  /\ thr_decisions = <<>>

\* new GitHubScanner({ token, org, onRateLimit }) and the first send of a request
ThrottleInit ==
  /\ thr_pc = "sent"
  /\ thr_hasObserver \in BOOLEAN
  /\ thr_retryCount = 0
  /\ thr_sent = 1
  /\ thr_signal = NoSignal
  /\ thr_signals = <<>>
  /\ thr_calls = <<>>
  /\ thr_decisions = <<>>

\* the service answers the send with a result: the request ends
Answered ==
  /\ thr_pc = "sent"
  /\ thr_pc' \in {"succeeded", "failed"}
  /\ UNCHANGED <<thr_hasObserver, thr_retryCount, thr_sent, thr_signal, thr_signals,
                 thr_calls, thr_decisions, ix_vars, loc_vars, org_vars, cc_vars>>

\* the service answers the send with a rate-limit signal: the handler is entered
RateLimited ==
  /\ thr_pc = "sent"
  /\ \E kind \in {Primary, Secondary}, retryAfter \in RetryAfters :
        /\ thr_signal' = [kind |-> kind, retryAfter |-> retryAfter]
        /\ thr_signals' = Append(thr_signals, thr_signal')
  /\ thr_pc' = "handler"
  /\ UNCHANGED <<thr_hasObserver, thr_retryCount, thr_sent, thr_calls, thr_decisions,
                 ix_vars, loc_vars, org_vars, cc_vars>>

\* the handler reports the signal to the observer, when there is one
HandlerNotify ==
  /\ thr_pc = "handler"
  /\ thr_calls' = NotifyObserver(thr_hasObserver, thr_calls,
                     RateLimitEvent(thr_signal.kind, thr_signal.retryAfter, thr_retryCount))
  /\ thr_pc' = "decide"
  /\ UNCHANGED <<thr_hasObserver, thr_retryCount, thr_sent, thr_signal, thr_signals,
                 thr_decisions, ix_vars, loc_vars, org_vars, cc_vars>>

\* the handler returns: the request is sent again or given up
Decided(wantRetry) ==
  /\ thr_decisions' = Append(thr_decisions, wantRetry)
  /\ thr_retryCount' = IF wantRetry THEN RetryCountAfter(thr_retryCount) ELSE thr_retryCount
  /\ thr_sent' = IF wantRetry THEN thr_sent + 1 ELSE thr_sent
  /\ thr_pc' = IF wantRetry THEN "sent" ELSE "givenUp"

HandlerDecide ==
  /\ thr_pc = "decide"
  /\ Decided(WantRetry(thr_signal.kind, thr_retryCount))
  /\ UNCHANGED <<thr_hasObserver, thr_signal, thr_signals, thr_calls,
                 ix_vars, loc_vars, org_vars, cc_vars>>

(***************************************************************************)
(* Artifactory cache check.  An answer to a request of #getJson is an HTTP *)
(* response (status, whether the content type is application/json, the    *)
(* body), a network error or the abort of the 15 s timer.  A body is an    *)
(* object, of which only repo (truthy or not) and lastDownloaded (absent,  *)
(* a date, or text that is no date) matter here, the JSON value null, or   *)
(* text that does not parse.                                               *)
(***************************************************************************)
Obj(repo, lastDownloaded) == [kind |-> "object", repo |-> repo, lastDownloaded |-> lastDownloaded]
EmptyObj == Obj(FALSE, "none")
NullBody == [kind |-> "null", repo |-> FALSE, lastDownloaded |-> "none"]
Unparseable == [kind |-> "unparseable", repo |-> FALSE, lastDownloaded |-> "none"]

Http(status, json, body) == [kind |-> "http", status |-> status, json |-> json, body |-> body]
NetworkError == [kind |-> "network", status |-> 0, json |-> FALSE, body |-> EmptyObj]
TimedOut == [kind |-> "timeout", status |-> 0, json |-> FALSE, body |-> EmptyObj]

Returns(value) == [kind |-> "return", value |-> value, message |-> ""]
Throws(message) == [kind |-> "throw", value |-> EmptyObj, message |-> message]

\* #getJson(url), given the answer to its fetch
getJson(answer) ==
  IF answer.kind = "network" THEN Throws("fetch failed")
  ELSE IF answer.kind = "timeout" THEN Throws("This operation was aborted")
  ELSE IF answer.status = 404 THEN Returns(EmptyObj)
  ELSE IF answer.status \notin 200..299 THEN Throws("status")
  ELSE IF ~answer.json
    THEN IF answer.body.kind = "unparseable" THEN Returns(EmptyObj) ELSE Returns(answer.body)
  ELSE IF answer.body.kind = "unparseable" THEN Throws("Unexpected token")
  ELSE Returns(answer.body)

\* encodeURIComponent of a path segment, for the characters of the names and
\* versions used here: letters, digits, '-' and '.' stay, '@' is escaped
EncodeSegment(seg) ==
  LET Enc(c) == IF c = "@" THEN <<"%", "4", "0">> ELSE <<c>>
  IN Join([i \in 1..Len(seg) |-> Enc(seg[i])], <<>>)

Tgz == <<".", "t", "g", "z">>

\* tarballPath(pkgName, version); name is undefined when a scoped name has no '/'
tarballPath(pkgName, version) ==
  IF pkgName # <<>> /\ pkgName[1] = "@"
    THEN LET parts == Split(pkgName, <<"/">>)
             scope == parts[1]
             name == IF Len(parts) >= 2 THEN parts[2]
                     ELSE <<"u", "n", "d", "e", "f", "i", "n", "e", "d">>
         IN scope \o <<"/">> \o name \o <<"/", "-", "/">> \o name \o <<"-">> \o version \o Tgz
    ELSE pkgName \o <<"/", "-", "/">> \o pkgName \o <<"-">> \o version \o Tgz

\* path.split('/').map(encodeURIComponent).join('/')
EncodedPath(path) ==
  LET segs == Split(path, <<"/">>)
  IN Join([i \in 1..Len(segs) |-> EncodeSegment(segs[i])], <<"/">>)

NoError == ""
NoCheck == [pc |-> "none", package |-> <<>>, version |-> <<>>, path |-> <<>>,
            requests |-> <<>>, storage |-> EmptyObj, result |-> <<>>]

\* the record checkCache resolves to
CacheRecord(package, version, existsInCache, lastDownloaded, error) ==
  [package |-> package, version |-> version, existsInCache |-> existsInCache,
   lastDownloaded |-> lastDownloaded, error |-> error]

\* checkCache(spec) up to its first await: it throws of a specifier without a
\* name or without a version, and requests the storage info otherwise
checkCacheStart(spec) ==
  LET at == LastIndexOf(spec, "@")
      pkgName == Slice(spec, 0, at)
      version == Slice(spec, at + 1, Len(spec))
  IN IF at <= 0 THEN [NoCheck EXCEPT !.pc = "rejected"]
     ELSE IF version = <<>>
       THEN [NoCheck EXCEPT !.pc = "rejected", !.package = pkgName]
     ELSE [NoCheck EXCEPT !.pc = "storage", !.package = pkgName, !.version = version,
                          !.path = EncodedPath(tarballPath(pkgName, version)),
                          !.requests = <<"storage">>]

Resolved(c, record) == [c EXCEPT !.pc = "resolved", !.result = record]

\* a variant whose catch lets the error through
Caught_rethrows(c, message) == [c EXCEPT !.pc = "rejected"]

\* catch (err): the record with existsInCache false and the message
Caught(c, message) ==
  Resolved(c, CacheRecord(c.package, c.version, FALSE, "none", message))

\* checkCache after the storage request
OnStorage(c, got) ==
  IF got.kind = "throw" THEN Caught(c, got.message)
  ELSE IF ~(got.value.kind = "object" /\ got.value.repo)
    THEN Resolved(c, CacheRecord(c.package, c.version, FALSE, "none", NoError))
  ELSE [c EXCEPT !.pc = "stats", !.storage = got.value, !.requests = Append(@, "stats")]

\* checkCache after the stats request; toISOString throws of a date that is none
OnStats(c, got) ==
  IF got.kind = "throw" THEN Caught(c, got.message)
  ELSE IF got.value.kind = "object" /\ got.value.lastDownloaded = "invalid"
    THEN Caught(c, "Invalid time value")
  ELSE Resolved(c, CacheRecord(c.package, c.version, TRUE,
                               IF got.value.kind = "object" THEN got.value.lastDownloaded
                               ELSE "none",
                               NoError))

(***************************************************************************)
(* Specification of the cache check of the command line: the specifier     *)
(* list and the answers of Artifactory are the inputs                      *)
(***************************************************************************)
CacheSpecLists ==
  { <<n_leftpad \o At \o v_100, n_scoped \o At \o v_100>>,
    <<n_es \o At \o v_336, n_leftpad \o At \o v_100, n_leftpad \o At \o v_110>>,
    <<n_leftpad \o At \o v_100, n_leftpad>>,
    <<At \o v_100, n_es \o At \o v_336>>,
    <<n_leftpad \o At>> }

StorageAnswers ==
  { Http(200, TRUE, Obj(TRUE, "none")), Http(200, TRUE, Obj(FALSE, "none")),
    Http(200, TRUE, NullBody), Http(200, TRUE, Unparseable),
    Http(200, FALSE, Unparseable),
    Http(404, FALSE, Unparseable), Http(500, FALSE, Unparseable),
    NetworkError, TimedOut }

StatsAnswers ==
  { Http(200, TRUE, Obj(FALSE, "date")), Http(200, TRUE, Obj(FALSE, "none")),
    Http(200, TRUE, Obj(FALSE, "invalid")), Http(200, TRUE, NullBody),
    Http(404, FALSE, Unparseable), Http(500, FALSE, Unparseable),
    NetworkError, TimedOut }

CacheIdle ==
  /\ cc_pc = "off"
  /\ cc_specs = <<>>
  /\ cc_checks = <<>>
  /\ cc_results = <<>>
  /\ cc_log = <<>>

CacheInit ==
  /\ cc_pc = "idle"
  /\ cc_specs \in CacheSpecLists
  /\ cc_checks = <<>>
  /\ cc_results = <<>>
  /\ cc_log = <<>>

\* an answer that arrived: which check, which request, and the answer
Arrival(i, request, answer) == [check |-> i, request |-> request, answer |-> answer]

\* specs.map((spec) => new ArtifactoryClient(...).checkCache(spec)): every
\* check runs to its first await, Promise.all awaits them
MainChecks ==
  /\ cc_pc = "idle"
  /\ cc_pc' = "running"
  /\ cc_checks' = [i \in 1..Len(cc_specs) |-> checkCacheStart(cc_specs[i])]
  /\ UNCHANGED <<cc_specs, cc_results, cc_log, ix_vars, loc_vars, org_vars, thr_vars>>

\* the storage request of a check is answered
StorageAnswered ==
  /\ cc_pc \in {"running", "rejected"}
  /\ \E i \in 1..Len(cc_checks), answer \in StorageAnswers :
        /\ cc_checks[i].pc = "storage"
        /\ cc_checks' = [cc_checks EXCEPT ![i] = OnStorage(@, getJson(answer))]
        /\ cc_log' = Append(cc_log, Arrival(i, "storage", answer))
  /\ UNCHANGED <<cc_pc, cc_specs, cc_results, ix_vars, loc_vars, org_vars, thr_vars>>

\* the stats request of a check is answered
StatsAnswered ==
  /\ cc_pc \in {"running", "rejected"}
  /\ \E i \in 1..Len(cc_checks), answer \in StatsAnswers :
        /\ cc_checks[i].pc = "stats"
        /\ cc_checks' = [cc_checks EXCEPT ![i] = OnStats(@, getJson(answer))]
        /\ cc_log' = Append(cc_log, Arrival(i, "stats", answer))
  /\ UNCHANGED <<cc_pc, cc_specs, cc_results, ix_vars, loc_vars, org_vars, thr_vars>>

\* the value Promise.all fulfils with: the records in the order of the checks
PromiseAllValues(checks) == [i \in 1..Len(checks) |-> checks[i].result]

\* Promise.all fulfils once every check has resolved
AllFulfilled ==
  /\ cc_pc = "running"
  /\ \A i \in 1..Len(cc_checks) : cc_checks[i].pc = "resolved"
  /\ cc_pc' = "fulfilled"
  /\ cc_results' = PromiseAllValues(cc_checks)
  /\ UNCHANGED <<cc_specs, cc_checks, cc_log, ix_vars, loc_vars, org_vars, thr_vars>>

\* Promise.all rejects as soon as one check has rejected: main fails
AllRejected ==
  /\ cc_pc = "running"
  /\ \E i \in 1..Len(cc_checks) : cc_checks[i].pc = "rejected"
  /\ cc_pc' = "rejected"
  /\ UNCHANGED <<cc_specs, cc_checks, cc_results, cc_log, ix_vars, loc_vars, org_vars, thr_vars>>

(***************************************************************************)
(* Specifications                                                          *)
(***************************************************************************)
IndexNext == BuildIndex

Init == OrgInit /\ IndexIdle /\ LocationIdle /\ ThrottleIdle /\ CacheIdle

Next ==
  \/ ScanOrgStart
  \/ ListReposPage
  \/ ListBranchesPage
  \/ GetTree
  \/ GetManifest
  \/ GetLockfile

\* scanOrg against a service that does not rate-limit
Spec == Init /\ [][Next]_vars

LiveNext == Next \/ RateLimitRetry \/ RateLimitGiveUp

InitLive == OrgLiveInit /\ IndexIdle /\ LocationIdle /\ ThrottleIdle /\ CacheIdle

\* the service answers every request it is sent, with a result or with a
\* rate-limit signal
SpecLive == InitLive /\ [][LiveNext]_vars /\ WF_vars(LiveNext)

InitIndex == IndexInit /\ LocationIdle /\ OrgIdle /\ ThrottleIdle /\ CacheIdle

SpecIndex == InitIndex /\ [][IndexNext]_vars

LocationNext == LocGetManifest \/ LocGetLockfile

InitLocation == LocationInit /\ IndexIdle /\ OrgIdle /\ ThrottleIdle /\ CacheIdle

SpecLocation == InitLocation /\ [][LocationNext]_vars

ThrottleNext == Answered \/ RateLimited \/ HandlerNotify \/ HandlerDecide

InitThrottle == ThrottleInit /\ IndexIdle /\ LocationIdle /\ OrgIdle /\ CacheIdle

SpecThrottle == InitThrottle /\ [][ThrottleNext]_vars

CacheNext == MainChecks \/ StorageAnswered \/ StatsAnswered \/ AllFulfilled \/ AllRejected

InitCache == CacheInit /\ IndexIdle /\ LocationIdle /\ OrgIdle /\ ThrottleIdle

SpecCache == InitCache /\ [][CacheNext]_vars

(***************************************************************************)
(* C8: the index holds version v under name exactly when some specifier    *)
(* is name @ v with the '@' being its last one and not at index 0; other   *)
(* specifiers contribute nothing; repeated specifiers merge into one set.  *)
(***************************************************************************)
Prefixes(s) == {SubSeq(s, 1, k) : k \in 0..Len(s)}
Suffixes(s) == {SubSeq(s, k, Len(s)) : k \in 1..(Len(s) + 1)}
NoDup(s) == \A i, j \in 1..Len(s) : s[i] = s[j] => i = j

IndexOfSpecs(map, specs) ==
  LET names == DOMAIN map \cup UNION {Prefixes(specs[i]) : i \in 1..Len(specs)}
      versions == UNION {Range(map[n]) : n \in DOMAIN map}
                    \cup UNION {Suffixes(specs[i]) : i \in 1..Len(specs)}
  IN /\ \A name \in names : \A v \in versions :
          (MapHas(map, name) /\ v \in Range(map[name]))
            <=> \E i \in 1..Len(specs) :
                  /\ specs[i] = name \o At \o v
                  /\ "@" \notin Range(v)
                  /\ Len(name) > 0
     /\ \A name \in DOMAIN map : NoDup(map[name]) /\ map[name] # <<>>

C8_IndexExact ==
  ix_pc = "built" =>
    /\ IndexOfSpecs(ix_map, ix_specs)
    /\ IndexOfSpecs(ix_scanMap, ix_specs)

C8_Witness ==
  /\ ix_pc = "built"
  /\ n_scoped \o At \o v_100 \in Range(ix_specs)
  /\ n_scoped \in Range(ix_specs)
  /\ n_leftpad \o At \o v_100 \o At \o v_110 \in Range(ix_specs)
  /\ MapHas(ix_map, n_scoped) /\ ix_map[n_scoped] = <<v_100>>

(***************************************************************************)
(* Properties of scanPackageLocation, checked under SpecLocation           *)
(***************************************************************************)
Returned == loc_pc = "returned_result"

JsonFile(resp) == resp.status = 200 /\ resp.type = "file" /\ resp.content.kind = "json"

TheManifest == loc_manifestResp.content.value
TheLockfile == loc_lockResp.content.value

NameCount(entries, name) == Cardinality({i \in 1..Len(entries) : entries[i].name = name})

DeclaredNames(packageJson) ==
  { e[1] : e \in Range(packageJson.dependencies) \cup Range(packageJson.devDependencies)
             \cup Range(packageJson.optionalDependencies)
             \cup Range(packageJson.peerDependencies) }

\* the package name an installation path pins: what follows its last 'node_modules/'
NameAfterLast(path) ==
  IF ~Includes(path, NodeModulesSep) THEN path
  ELSE CHOOSE t \in Suffixes(path) :
         /\ \E pre \in Prefixes(path) : path = pre \o NodeModulesSep \o t
         /\ ~Includes(t, NodeModulesSep)

FlatPins(packages) ==
  { <<NameAfterLast(e[1]), e[2].version>> :
      e \in { x \in Range(packages) :
                x[1] # <<>> /\ x[2].version # <<>> /\ NameAfterLast(x[1]) # <<>> } }

RECURSIVE TreePins(_)
TreePins(deps) ==
  UNION { (IF deps[i].version # <<>> THEN {<<deps[i].name, deps[i].version>>} ELSE {})
            \cup TreePins(deps[i].dependencies) : i \in 1..Len(deps) }

\* the (name, version) pairs a lockfile pins, in either shape
PinnedPairs(lockfile) == FlatPins(lockfile.packages) \cup TreePins(lockfile.dependencies)

CriticalPairs(result) == { <<c.name, c.version>> : c \in Range(result.critical) }

(***************************************************************************)
(* C1 (as stated): a name with a critical finding has no entry in danger   *)
(* and none in caution of the same result.                                 *)
(***************************************************************************)
C1_NoRangeFindingForCritical ==
  Returned =>
    \A c \in Range(loc_result.critical) :
       /\ NameCount(loc_result.danger, c.name) = 0
       /\ NameCount(loc_result.caution, c.name) = 0

(***************************************************************************)
(* C1 (amended): a critical finding does not suppress the range findings:  *)
(* a name with a critical finding has exactly one entry in danger or       *)
(* caution when the manifest declares it, and none when it does not.       *)
(***************************************************************************)
C1_CriticalKeepsRangeFinding ==
  Returned =>
    \A c \in Range(loc_result.critical) :
       NameCount(loc_result.danger, c.name) + NameCount(loc_result.caution, c.name)
         = IF c.name \in DeclaredNames(TheManifest) THEN 1 ELSE 0

\* the end-to-end scenario: event-stream declared ^3.0.0, pinned and compromised 3.3.6
C1_Witness ==
  /\ Returned
  /\ loc_specs = <<n_es \o At \o v_336>>
  /\ TheManifest = Deps(<<<<n_es, r_caret3>>>>)
  /\ loc_result.critical = <<[name |-> n_es, version |-> v_336]>>
  /\ loc_result.danger = <<DangerEntry(n_es, r_caret3, v_336)>>
  /\ loc_result.caution = <<>>

(***************************************************************************)
(* C3: critical is exactly the set of lockfile-pinned (name, version)      *)
(* pairs whose name is a key of the index and whose version is, as a       *)
(* string, a member of that name's set; it is empty without a parsed       *)
(* lockfile.                                                               *)
(***************************************************************************)
C3_CriticalExact ==
  Returned =>
    CriticalPairs(loc_result) =
      IF JsonFile(loc_lockResp)
        THEN { p \in PinnedPairs(TheLockfile) :
                 MapHas(loc_map, p[1]) /\ p[2] \in Range(loc_map[p[1]]) }
        ELSE {}

\* left-pad is pinned at 1.0.0 while v1.0.0 is compromised: not critical, next to
\* event-stream 3.3.6, which is
C3_Witness ==
  /\ Returned
  /\ JsonFile(loc_lockResp)
  /\ MapHas(loc_map, n_leftpad) /\ v_v100 \in Range(loc_map[n_leftpad])
  /\ v_100 \notin Range(loc_map[n_leftpad])
  /\ <<n_leftpad, v_100>> \in PinnedPairs(TheLockfile)
  /\ CriticalPairs(loc_result) = {<<n_es, v_336>>}

(***************************************************************************)
(* C4: no (name, version) pair appears twice in critical.                  *)
(***************************************************************************)
C4_CriticalNoDup == Returned => NoDup(loc_result.critical)

\* left-pad 1.0.0 is pinned by two installation paths and twice in the tree
C4_Witness ==
  /\ Returned
  /\ JsonFile(loc_lockResp)
  /\ \E i, j \in 1..Len(TheLockfile.packages) :
        /\ i # j
        /\ TheLockfile.packages[i] = <<nm(n_leftpad), Pkg(v_100)>>
        /\ TheLockfile.packages[j] = <<nm(n_es) \o <<"/">> \o nm(n_leftpad), Pkg(v_100)>>
  /\ Len(TheLockfile.dependencies) = 2
  /\ NameCount(loc_result.critical, n_leftpad) = 1

(***************************************************************************)
(* C5: every declared dependency whose name is in the index appears        *)
(* exactly once in danger and caution together; a declared name that is    *)
(* not in the index, and a name that is not declared, appears in neither.  *)
(***************************************************************************)
C5_OneTierPerName ==
  Returned =>
    /\ \A name \in DeclaredNames(TheManifest) :
          NameCount(loc_result.danger, name) + NameCount(loc_result.caution, name)
            = IF MapHas(loc_map, name) THEN 1 ELSE 0
    /\ \A e \in Range(loc_result.danger) \cup Range(loc_result.caution) :
          e.name \in DeclaredNames(TheManifest)

\* left-pad, in the index, is declared in two categories with different ranges
C5_Witness ==
  /\ Returned
  /\ MapHas(loc_map, n_leftpad)
  /\ TheManifest.dependencies = <<<<n_leftpad, r_caret1>>>>
  /\ TheManifest.devDependencies = <<<<n_leftpad, r_invalid>>>>
  /\ NameCount(loc_result.danger, n_leftpad) + NameCount(loc_result.caution, n_leftpad) = 1

(***************************************************************************)
(* C6: a declared dependency (name, range) of the merged mapping with name *)
(* in the index is in danger iff some compromised version of the name is a *)
(* valid version satisfying the range, with matchedVersion the first such  *)
(* version in the set's order; otherwise it is in caution.                 *)
(***************************************************************************)
Satisfying(badVersions, range) ==
  { i \in 1..Len(badVersions) : valid(badVersions[i]) /\ satisfies(badVersions[i], range) }

Minimum(S) == CHOOSE x \in S : \A y \in S : x <= y

C6_DangerIffSatisfied ==
  Returned =>
    \A d \in Range(AllDeps(TheManifest)) :
       MapHas(loc_map, d[1]) =>
         LET sat == Satisfying(loc_map[d[1]], d[2]) IN
         IF sat # {}
           THEN /\ DangerEntry(d[1], d[2], loc_map[d[1]][Minimum(sat)])
                     \in Range(loc_result.danger)
                /\ NameCount(loc_result.caution, d[1]) = 0
           ELSE /\ \E e \in Range(loc_result.caution) : e.name = d[1] /\ e.range = d[2]
                /\ NameCount(loc_result.danger, d[1]) = 0

\* 1.1.0 and 1.0.0 are compromised, in that order, and both satisfy ^1.0.0
C6_Witness ==
  /\ Returned
  /\ MapHas(loc_map, n_leftpad) /\ loc_map[n_leftpad] = <<v_110, v_100>>
  /\ DangerEntry(n_leftpad, r_caret1, v_110) \in Range(loc_result.danger)

(***************************************************************************)
(* C7: a declared dependency with an invalid range and a name in the index *)
(* is in caution; the classification adds no error to the result (its      *)
(* errors name the lockfile only) and the other declared dependencies are  *)
(* classified all the same.                                                *)
(***************************************************************************)
InvalidRangeDeps(packageJson, map) ==
  { d \in Range(AllDeps(packageJson)) : MapHas(map, d[1]) /\ ~validRange(d[2]) }

C7_InvalidRangeIsCaution ==
  Returned =>
    /\ \A d \in InvalidRangeDeps(TheManifest, loc_map) :
          /\ CautionEntry(d[1], d[2], loc_map[d[1]]) \in Range(loc_result.caution)
          /\ NameCount(loc_result.danger, d[1]) = 0
    /\ InvalidRangeDeps(TheManifest, loc_map) # {} =>
          /\ \A e \in Range(loc_result.errors) : e.path = LockfilePath(loc_path)
          /\ \A d \in Range(AllDeps(TheManifest)) :
                MapHas(loc_map, d[1]) =>
                  NameCount(loc_result.danger, d[1]) + NameCount(loc_result.caution, d[1]) = 1

\* left-pad has an invalid range and event-stream, declared after it, is in danger
C7_Witness ==
  /\ Returned
  /\ TheManifest.dependencies = <<<<n_leftpad, r_invalid>>, <<n_es, r_2or3>>>>
  /\ NameCount(loc_result.caution, n_leftpad) = 1
  /\ loc_result.danger = <<DangerEntry(n_es, r_2or3, v_336)>>

(***************************************************************************)
(* Claims about scanOrg                                                    *)
(***************************************************************************)
AllDigits(part) == Len(part) > 0 /\ \A i \in 1..Len(part) : part[i] \in Digits

\* the retention rule as stated: main, master or dev, or exactly two
\* dot-separated components, each all digits
Retained(name) ==
  \/ name = b_main
  \/ name = b_master
  \/ name = b_dev
  \/ LET parts == Split(name, <<".">>)
     IN  Len(parts) = 2 /\ AllDigits(parts[1]) /\ AllDigits(parts[2])

BranchesScanned ==
  { scan.progress[i].branch : i \in { j \in 1..Len(scan.progress) :
                                        scan.progress[j].type = "branch" } }
    \cup { scan.results[i].branch : i \in 1..Len(scan.results) }
    \cup { scan.branchResults[i].branch : i \in 1..Len(scan.branchResults) }

\* C2: once a request of scanOrg has failed with a status other than 404 and
\* 409, scanOrg has failed and holds no result sequence.
C2_HardFailureAborts ==
  hardFailure => (scan.outcome = "failed" /\ scan.results = <<>>)

\* C9: the branches listMatchingBranches holds are exactly the names received
\* over the pages of the listing that are retained, in listing order; feature/x,
\* 1.2.3 and release-1.2 are never among them, and every branch scanOrg scans
\* is retained.
C9_BranchesAreRetainedListed ==
  /\ scan.outcome # "failed" => scan.branches = SelectSeq(scan.listed, Retained)
  /\ Range(scan.branches) \cap {b_feature, b_three, b_dashed} = {}
  /\ \A b \in BranchesScanned : Retained(b)

\* a listing of two pages that held main, feature/x, 1.2.3 and 12.3 has
\* returned main and 12.3, and the scan of 12.3 has begun
C9_Witness ==
  /\ scan.listEnd = "exhausted"
  /\ scan.listed = <<b_main, b_feature, b_three, b_release>>
  /\ scan.branches = <<b_main, b_release>>
  /\ scan.branchIdx = 2
  /\ b_release \in BranchesScanned

\* C10: a branch listing ended by a 404 or 409 has returned an empty list.
C10_SoftFailureReturnsEmpty ==
  scan.listEnd = "absent" => scan.branches = <<>>

(***************************************************************************)
(* Claims about the rate-limit handlers, checked under SpecThrottle        *)
(***************************************************************************)
AllOfKind(kind) == \A i \in 1..Len(thr_signals) : thr_signals[i].kind = kind

\* the ceiling of retries stated for a kind of signal
Ceiling(kind) == IF kind = Primary THEN 5 ELSE 3

\* the request has been given up on a run of signals of one kind only after
\* exactly the ceiling of retries, and never has more retries than that
CeilingKept(kind) ==
  AllOfKind(kind) =>
     /\ thr_retryCount <= Ceiling(kind)
     /\ thr_sent <= Ceiling(kind) + 1
     /\ thr_pc = "givenUp" => thr_retryCount = Ceiling(kind)

\* C11: a request that gets a primary rate-limit signal on every send is
\* retried 5 times and then given up, one that gets a secondary signal on
\* every send is retried 3 times and then given up; no retry is ever granted
\* at or above the ceiling of the signal's kind.
C11_RetryCeilings ==
  /\ CeilingKept(Primary)
  /\ CeilingKept(Secondary)
  /\ \A i \in 1..Len(thr_decisions) :
        thr_decisions[i] => i - 1 < Ceiling(thr_signals[i].kind)

\* a request was given up after five retries on primary signals
C11_Witness ==
  /\ thr_pc = "givenUp"
  /\ AllOfKind(Primary)
  /\ thr_retryCount = 5
  /\ thr_sent = 6

\* the observer calls due for the first n signals
CallsDue(n) ==
  [i \in 1..n |-> [type |-> thr_signals[i].kind,
                   retryAfter |-> thr_signals[i].retryAfter,
                   retryCount |-> i - 1]]

\* C12: with an observer, every signal has been reported exactly once, with
\* its kind, its retryAfter and the retry count, before the handler decides,
\* the signal on which the request is given up included; the decisions are
\* the same function of the signals with and without an observer.
C12_ObserverToldBeforeDecision ==
  /\ thr_hasObserver =>
        thr_calls = CallsDue(IF thr_pc = "handler" THEN Len(thr_signals) - 1
                             ELSE Len(thr_signals))
  /\ ~thr_hasObserver => thr_calls = <<>>
  /\ Len(thr_decisions) = (IF thr_pc \in {"handler", "decide"} THEN Len(thr_signals) - 1
                           ELSE Len(thr_signals))
  /\ \A i \in 1..Len(thr_decisions) :
        thr_decisions[i] = (i - 1 < Ceiling(thr_signals[i].kind))

\* the observer has been told of the secondary signal on which the request
\* was given up
C12_Witness ==
  /\ thr_hasObserver
  /\ thr_pc = "givenUp"
  /\ AllOfKind(Secondary)
  /\ Len(thr_calls) = 4
  /\ thr_calls[4] = [type |-> Secondary, retryAfter |-> 60, retryCount |-> 3]

(***************************************************************************)
(* Termination of scanOrg, checked under SpecLive                          *)
(***************************************************************************)
\* C13: against a service that answers every request, scanOrg eventually
\* returns its results or fails, however often its requests are rate-limited.
C13_ScanOrgEnds == <>(scan.pc = "done")

\* scanOrg has failed on a branch listing that was given up after its last
\* rate-limit signal
C13_Witness ==
  /\ scan.pc = "done"
  /\ scan.outcome = "failed"
  /\ last = [req |-> "listBranches", status |-> 403, kind |-> "rate-limit"]

(***************************************************************************)
(* Claims about the manifest locator, checked under Spec                   *)
(***************************************************************************)
Components(path) == Split(path, <<"/">>)

NodeModulesDir == <<"n", "o", "d", "e", "_", "m", "o", "d", "u", "l", "e", "s">>

\* the final component of the path is package.json and no directory of the
\* path is a node_modules directory
IsManifestLocation(path) ==
  LET parts == Components(path)
  IN  /\ parts[Len(parts)] = PackageJsonName
      /\ \A i \in 1..(Len(parts) - 1) : parts[i] # NodeModulesDir

IsManifestEntry(item) == item.type = "blob" /\ IsManifestLocation(item.path)

\* C14: the paths findPackageJsonPaths returned for the branch being scanned
\* are exactly the blob paths of its tree whose final component is
\* package.json and that lie under no node_modules directory, in tree order;
\* none contains 'node_modules/'.
C14_PathsAreManifestLocations ==
  scan.pc \in {"getManifest", "getLockfile"} =>
     /\ scan.paths = PathsOf(SelectSeq(scan.tree, IsManifestEntry))
     /\ \A i \in 1..Len(scan.paths) : ~Includes(scan.paths[i], NodeModulesSep)

\* the result records scanOrg holds, in the order they were pushed
AllRecords(s) == s.results \o s.branchResults

BranchEvents ==
  { i \in 1..Len(scan.progress) : scan.progress[i].type = "branch" }

\* a response to the tree request arrives
TreeAnswered == scan.pc = "getTree" /\ scan' # scan

\* C15: every branch scanOrg enters gets exactly one tree request; when the
\* tree request fails with 404 or 409 the branch adds no location and no
\* result and the scan goes on with the next branch, and when it fails with
\* another status scanOrg fails.
C15_OneTreeRequestSoftFailureEmpty ==
  [][ /\ Cardinality(BranchEvents) =
           scan.treeAnswers + (IF scan.pc = "getTree" THEN 1 ELSE 0)
      /\ (TreeAnswered /\ last'.status \in {404, 409}) =>
            /\ scan'.outcome # "failed"
            /\ AllRecords(scan') = AllRecords(scan)
            /\ scan'.visited = scan.visited
            /\ scan.branchIdx < Len(scan.branches) =>
                  scan'.pc = "getTree" /\ scan'.branchIdx = scan.branchIdx + 1
      /\ (TreeAnswered /\ last'.status \notin {200, 404, 409}) =>
            scan'.outcome = "failed" /\ scan'.error = last'.status
    ]_vars

\* the tree of the first of two branches was answered with a 409 and the
\* second branch has been entered
C15_Witness ==
  /\ last = [req |-> "getTree", status |-> 409, kind |-> "tree"]
  /\ scan.pc = "getTree"
  /\ scan.branchIdx = 2
  /\ scan.treeAnswers = 1
  /\ scan.visited = <<>>

(***************************************************************************)
(* Claims about the handling of manifest and lockfile contents             *)
(***************************************************************************)
\* a response to the manifest request arrives
ManifestAnswered == scan.pc = "getManifest" /\ scan' # scan

\* the step pushes exactly one result record
RecordPushed ==
  /\ scan'.outcome # "failed"
  /\ Len(AllRecords(scan')) = Len(AllRecords(scan)) + 1
  /\ SubSeq(AllRecords(scan'), 1, Len(AllRecords(scan))) = AllRecords(scan)

PushedRecord == AllRecords(scan')[Len(AllRecords(scan'))]

\* the step pushes no result record and the scan goes on
LocationSkipped ==
  /\ scan'.outcome # "failed"
  /\ AllRecords(scan') = AllRecords(scan)
  /\ scan'.pc # "getLockfile"

\* the manifest exists and its text is not JSON
ManifestFailsToParse == last'.status = 200 /\ last'.kind \in {"invalid", "empty"}

\* the manifest exists and its text is not empty and not JSON
ManifestParseThrows == last'.status = 200 /\ last'.kind = "invalid"

\* C16: a manifest request answered with not-found pushes no record and the
\* scan goes on; the manifest request pushes a record carrying an error
\* exactly when the manifest exists and JSON.parse rejects its text.
C16_ErrorOnlyForUnparseableManifest ==
  [][ ManifestAnswered =>
        /\ last'.status = 404 => LocationSkipped
        /\ (RecordPushed /\ PushedRecord.errors # <<>>) <=> ManifestParseThrows
    ]_vars

\* the location scanPackageLocation is running for
Location == scan.visited[Len(scan.visited)]

\* scanOrg goes on with the location, branch or repository that follows, or
\* returns when there is none
GoesOn ==
  IF scan.pathIdx < Len(scan.paths)
    THEN scan'.pc = "getManifest" /\ scan'.pathIdx = scan.pathIdx + 1
  ELSE IF scan.branchIdx < Len(scan.branches)
    THEN scan'.pc = "getTree" /\ scan'.branchIdx = scan.branchIdx + 1
  ELSE IF scan.repoIdx < Len(scan.repos)
    THEN scan'.pc = "listBranches" /\ scan'.repoIdx = scan.repoIdx + 1
  ELSE scan'.pc = "done" /\ scan'.outcome = "returned"

\* the record of a location whose manifest did not parse
IsParseFailureRecord(r, loc) ==
  /\ r.repo = loc[1] /\ r.branch = loc[2] /\ r.path = loc[3]
  /\ r.lockfileFound = FALSE
  /\ r.critical = <<>> /\ r.danger = <<>> /\ r.caution = <<>>
  /\ Len(r.errors) = 1
  /\ r.errors[1].path = loc[3]

LockfileTextIs(kinds) ==
  /\ Returned
  /\ JsonFile(loc_manifestResp)
  /\ loc_lockResp.status = 200
  /\ loc_lockResp.type = "file"
  /\ loc_lockResp.content.kind \in kinds

\* what scanPackageLocation returns for the same manifest when the lockfile
\* request is answered with not-found
WithoutLockfile ==
  AfterLockfile(NewResult(loc_result.repo, loc_result.branch, loc_path),
                TheManifest, ErrorResponse(404), loc_map)

NamesLockfile(e) == e.path = LockfilePath(loc_path)

\* the range findings are those of the manifest alone, critical is empty
ManifestOnlyFindings ==
  /\ loc_result.critical = <<>>
  /\ loc_result.danger = WithoutLockfile.danger
  /\ loc_result.caution = WithoutLockfile.caution

LockfileAnswered == scan.pc = "getLockfile" /\ scan' # scan

\* the content request is answered with the content of a file or directory
ContentFetched == (ManifestAnswered \/ LockfileAnswered) /\ last'.status = 200

\* C19: whatever content a manifest or lockfile request fetches, well-formed
\* or not, scanPackageLocation returns a record or skips the location (or
\* goes on to the lockfile of the manifest) and scanOrg does not fail.
C19_FetchedContentNeverAborts ==
  [][ ContentFetched =>
         /\ scan'.outcome # "failed"
         /\ \/ ManifestAnswered /\ scan'.pc = "getLockfile"
            \/ GoesOn
    ]_vars

(***************************************************************************)
(* C20: the order of the result records (Spec)                             *)
(***************************************************************************)
\* the location a result record is about
KeyOf(r) == <<r.repo, r.branch, r.path>>

\* the locations of the records scanOrg holds, in the order of the records
RecordKeys(s) == [i \in 1..Len(AllRecords(s)) |-> KeyOf(AllRecords(s)[i])]

\* whether ks can be had from vs by leaving elements out, the order kept
RECURSIVE IsSubsequence(_, _)
IsSubsequence(ks, vs) ==
  IF ks = <<>> THEN TRUE
  ELSE IF vs = <<>> THEN FALSE
  ELSE IF Head(ks) = Head(vs) THEN IsSubsequence(Tail(ks), Tail(vs))
  ELSE IsSubsequence(ks, Tail(vs))

\* C20: the result records are in the order in which scanOrg enumerated their
\* locations (repositories, then matching branches of a repository, then
\* manifest paths of a branch): their locations are the enumerated ones with
\* the locations that gave no record left out, and at most one record each.
C20_ResultsInEnumerationOrder ==
  /\ IsSubsequence(RecordKeys(scan), scan.visited)
  /\ \A i \in 1..Len(scan.visited) :
        /\ \E r \in 1..Len(scan.repos) : scan.visited[i][1] = scan.repos[r]
        /\ \A j \in i..Len(scan.visited) :
              \E r1, r2 \in 1..Len(scan.repos) :
                 /\ r1 <= r2
                 /\ scan.visited[i][1] = scan.repos[r1]
                 /\ scan.visited[j][1] = scan.repos[r2]

\* scanOrg returned one record of each of two branches of a repository
C20_Witness ==
  /\ scan.pc = "done"
  /\ scan.outcome = "returned"
  /\ Len(scan.results) = 2
  /\ scan.results[1].branch # scan.results[2].branch
  /\ KeyOf(scan.results[1]) = scan.visited[1]
  /\ KeyOf(scan.results[2]) = scan.visited[2]

(***************************************************************************)
(* C21: the progress events of scanOrg (Spec)                              *)
(***************************************************************************)
IsRepoEvent(e) == e.type = "repo"

\* the index in notified of the last repository event, 0 when there is none
LastRepoEvent ==
  LET is == { i \in 1..Len(scan.notified) : IsRepoEvent(scan.notified[i]) }
  IN IF is = {} THEN 0 ELSE CHOOSE i \in is : \A j \in is : j <= i

\* the events the observer received since the current repository was entered
EventsOfRepo == SubSeq(scan.notified, LastRepoEvent + 1, Len(scan.notified))

\* the observer has had one repository event for each repository entered so
\* far, the current one included, and one branch event for each branch of the
\* current repository entered so far, the current one included
EventsAsEntered ==
  /\ SelectSeq(scan.notified, IsRepoEvent) =
        [i \in 1..scan.repoIdx |-> RepoEvent(scan.repos[i])]
  /\ EventsOfRepo =
        [k \in 1..scan.branchIdx |-> BranchEvent(scan.repos[scan.repoIdx], scan.branches[k])]
  /\ \A i \in 1..Len(scan.notified) :
        ~IsRepoEvent(scan.notified[i]) => branchMatches(scan.notified[i].branch)
  /\ scan.outcome = "returned" => scan.repoIdx = Len(scan.repos)

\* scanOrg as it would stand had it been called with the observer o
WithObserver(s, o) == [s EXCEPT !.onProgress = o, !.notified = <<>>]

\* the step scanOrg takes when the request it awaits is answered with resp
StepOn(s, resp) ==
  CASE s.pc = "listRepos" -> OnReposPage(s, resp)
    [] s.pc = "listBranches" -> OnBranchesPage(s, resp)
    [] s.pc = "getTree" -> OnTree(s, resp)
    [] s.pc = "getManifest" -> OnManifest(s, resp)
    [] s.pc = "getLockfile" -> OnLockfile(s, resp, OrgChecks)

\* the answers the awaited request may get
AnswersAt(s) ==
  CASE s.pc = "listRepos" -> PageResponses(svc.repoPages, svc.repoListingPages)
    [] s.pc = "listBranches" -> PageResponses(svc.branchPages, svc.branchListingPages)
    [] s.pc = "getTree" -> { TreeResponse(t) : t \in svc.trees }
                              \cup { TreeFailure(st) : st \in svc.failures }
    [] s.pc = "getManifest" -> svc.manifests
    [] s.pc = "getLockfile" -> svc.lockfiles

\* a step does to scanOrg what the same answer does to it under any other
\* observer, the calls of the observer aside
SameUnderAnyObserver ==
  Pending =>
    \A resp \in AnswersAt(scan) :
       scan' = StepOn(scan, resp) =>
          \A o \in Observers :
             WithObserver(scan', o) = WithObserver(StepOn(WithObserver(scan, o), resp), o)

\* C21: an observer receives one repository event for every repository
\* scanOrg enters, before the branch requests of the repository, and one
\* branch event for every matching branch, before its tree request, and none
\* for another branch; without an observer nothing is notified; and every
\* step of scanOrg is the same step under every observer, whatever the
\* observer returns.
C21_ProgressEvents ==
  /\ [](IF scan.onProgress = NoObserver THEN scan.notified = <<>> ELSE EventsAsEntered)
  /\ [][SameUnderAnyObserver]_vars

\* an observer has been told of a repository without a matching branch and
\* of the next repository and its branch, whose tree is being requested
C21_Witness ==
  /\ scan.onProgress # NoObserver
  /\ scan.pc = "getTree"
  /\ Len(scan.notified) = 3
  /\ IsRepoEvent(scan.notified[1])
  /\ IsRepoEvent(scan.notified[2])
  /\ scan.notified[3] = BranchEvent(scan.repos[2], scan.branches[1])

(***************************************************************************)
(* C22: one record for each location whose manifest was fetched (Spec)     *)
(***************************************************************************)
\* getFileContent returned the (non-empty) text of the manifest
ManifestContentFetched ==
  last'.status = 200 /\ last'.kind \in {"json", "json-null", "invalid"}

\* the record of the location, as its manifest, its lockfile answer and the
\* index alone determine it
RecordOf(loc, packageJson, resp) ==
  LET fetched == AfterLockfileFetch(NewResult(loc[1], loc[2], loc[3]), resp)
  IN WithLevels(IF fetched.found
                  THEN [fetched.result EXCEPT !.critical = OrgChecks.critical[fetched.lockfile]]
                  ELSE fetched.result,
                OrgChecks.levels[packageJson])

\* C22: a location gets a record exactly when the content of its manifest
\* was fetched, and then exactly one, appended to the records held whether
\* or not an equal record is among them; the record is determined by the
\* manifest and the lockfile of the location and by the index.
C22_OneRecordPerFetchedManifest ==
  [][ /\ ManifestAnswered =>
            IF ManifestContentFetched
              THEN RecordPushed \/ scan'.pc = "getLockfile"
              ELSE LocationSkipped
      /\ (LockfileAnswered /\ scan'.thrown # "TypeError") =>
            /\ RecordPushed
            /\ KeyOf(PushedRecord) = Location
            /\ PushedRecord = RecordOf(Location, scan.packageJson, 
                                       CHOOSE resp \in svc.lockfiles :
                                          scan' = OnLockfile(scan, resp, OrgChecks))
    ]_vars

(***************************************************************************)
(* C23: the package name of a flat-map entry (SpecLocation)                *)
(***************************************************************************)
\* the entries of the flat map but the root entry
InstalledEntries(lockfile) ==
  { e \in Range(lockfile.packages) : e[1] # <<>> }

Compromised(name, version) ==
  MapHas(loc_map, name) /\ version \in Range(loc_map[name])

\* C23: the name #checkLockfile takes of a flat-map entry is what follows the
\* last 'node_modules/' of its path, a compromised version pinned under that
\* name is critical, and the root entry (empty path) gives no finding: every
\* finding is pinned by another entry or by the tree.
C23_NameFollowsLastNodeModules ==
  (Returned /\ JsonFile(loc_lockResp)) =>
     /\ PathPackageName(nm(n_scoped)) = n_scoped
     /\ PathPackageName(nm(n_es) \o <<"/">> \o nm(n_leftpad)) = n_leftpad
     /\ \A e \in InstalledEntries(TheLockfile) :
           /\ PathPackageName(e[1]) = NameAfterLast(e[1])
           /\ (NameAfterLast(e[1]) # <<>> /\ e[2].version # <<>>
                  /\ Compromised(NameAfterLast(e[1]), e[2].version))
                => <<NameAfterLast(e[1]), e[2].version>> \in CriticalPairs(loc_result)
     /\ CriticalPairs(loc_result) \subseteq
           { <<NameAfterLast(e[1]), e[2].version>> : e \in InstalledEntries(TheLockfile) }
             \cup TreePins(TheLockfile.dependencies)

\* the root entry pins 1.0.0 and a nested path pins left-pad 1.0.0 under
\* event-stream: left-pad 1.0.0 is the one finding
C23_Witness ==
  /\ Returned
  /\ JsonFile(loc_lockResp)
  /\ TheLockfile.dependencies = <<>>
  /\ TheLockfile.packages =
        << <<Empty, Pkg(v_100)>>, <<nm(n_es) \o <<"/">> \o nm(n_leftpad), Pkg(v_100)>> >>
  /\ loc_result.critical = <<[name |-> n_leftpad, version |-> v_100]>>

(***************************************************************************)
(* C24: the recursive-tree lockfile shape (SpecLocation)                   *)
(***************************************************************************)
\* the number of levels of a tree of dependencies
RECURSIVE Depth(_)
Depth(deps) ==
  IF deps = <<>> THEN 0
  ELSE LET ds == { Depth(deps[i].dependencies) : i \in 1..Len(deps) }
       IN 1 + CHOOSE m \in ds : \A d \in ds : d <= m

\* C24: every compromised (name, version) that the tree pins, at whatever
\* depth and under whatever ancestors, is critical.
C24_EveryDepthExamined ==
  (Returned /\ JsonFile(loc_lockResp)) =>
     \A p \in TreePins(TheLockfile.dependencies) :
        Compromised(p[1], p[2]) => p \in CriticalPairs(loc_result)

\* event-stream 3.3.6 is pinned at the deepest level under an ancestor that
\* carries no version, and is the one finding
C24_Witness ==
  /\ Returned
  /\ JsonFile(loc_lockResp)
  /\ TheLockfile.packages = <<>>
  /\ Len(TheLockfile.dependencies) = 1
  /\ Depth(TheLockfile.dependencies) = MaxDepth
  /\ TheLockfile.dependencies[1].version = Empty
  /\ ~Compromised(TheLockfile.dependencies[1].name, TheLockfile.dependencies[1].version)
  /\ loc_result.critical = <<[name |-> n_es, version |-> v_336]>>

(***************************************************************************)
(* C25: one request at a time (SpecLive)                                   *)
(***************************************************************************)
\* C25: while scanOrg runs exactly one request is outstanding, the one it
\* awaits, and none once it has ended; a request is being retried only while
\* it is the awaited one.
C25_OneRequestOutstanding ==
  /\ scan.outstanding = (IF Pending THEN 1 ELSE 0)
  /\ retryCount > 0 => Pending /\ scan.outstanding = 1

\* a manifest of the second repository is being retried after two rate-limit
\* signals
C25_Witness ==
  /\ scan.pc = "getManifest"
  /\ scan.repoIdx = 2
  /\ retryCount = 2
  /\ scan.outstanding = 1

(***************************************************************************)
(* C26: a name declared in several categories (SpecLocation)               *)
(***************************************************************************)
\* the categories in the order of the spread
CategoriesInOrder(packageJson) ==
  <<packageJson.dependencies, packageJson.devDependencies,
    packageJson.optionalDependencies, packageJson.peerDependencies>>

\* the range the first category that declares name gives it
FirstDeclaredRange(packageJson, name) ==
  LET cats == CategoriesInOrder(packageJson)
      c == Minimum({ i \in 1..Len(cats) : KeyIndex(cats[i], name) # 0 })
  IN cats[c][KeyIndex(cats[c], name)][2]

\* C26: the merged mapping holds exactly one entry for each declared name,
\* and its range is the one of the first category that declares the name.
C26_EarlierCategoryKeepsRange ==
  (Returned /\ JsonFile(loc_manifestResp)) =>
     \A name \in DeclaredNames(TheManifest) :
        /\ Cardinality({ i \in 1..Len(AllDeps(TheManifest)) :
                           AllDeps(TheManifest)[i][1] = name }) = 1
        /\ AllDeps(TheManifest)[KeyIndex(AllDeps(TheManifest), name)][2]
              = FirstDeclaredRange(TheManifest, name)

(***************************************************************************)
(* C27: the lockfile paired with a manifest (Spec)                         *)
(***************************************************************************)
\* the path with its final component replaced by package-lock.json
SiblingLockfile(path) ==
  LET parts == Components(path)
  IN Join(SubSeq(parts, 1, Len(parts) - 1) \o <<PackageLockName>>, <<"/">>)

\* C27: the lockfile requested for a manifest path that the locator returned
\* is package-lock.json in the directory of the manifest.
C27_LockfileBesideManifest ==
  scan.pc = "getLockfile" =>
     /\ scan.result.path = scan.paths[scan.pathIdx]
     /\ LockfilePath(scan.result.path) = SiblingLockfile(scan.result.path)

(***************************************************************************)
(* C28: lockfileFound and critical of a result record (SpecLocation)       *)
(***************************************************************************)
\* scanPackageLocation returned a result record
RecordReturned == loc_pc \in {"returned_result", "returned_parse_error"}

\* the lockfile was requested and the request returned non-empty content
LockfileContentReturned ==
  /\ loc_pc = "returned_result"
  /\ loc_lockResp.status = 200
  /\ loc_lockResp.type = "file"
  /\ loc_lockResp.content.kind # "empty"

\* C28: in a result record lockfileFound is true exactly when the lockfile
\* request returned non-empty content, whether or not the content parsed;
\* critical is non-empty only if lockfileFound is true and no error of the
\* record names the lockfile.
C28_LockfileFoundIffContent ==
  RecordReturned =>
     /\ loc_result.lockfileFound <=> LockfileContentReturned
     /\ loc_result.critical # <<>> =>
           /\ loc_result.lockfileFound
           /\ \A i \in 1..Len(loc_result.errors) : ~NamesLockfile(loc_result.errors[i])

\* the lockfile of a workspace holds text that does not parse: lockfileFound
\* is true, critical is empty and the error names the lockfile
C28_Witness ==
  /\ RecordReturned
  /\ loc_path = p_workspace
  /\ loc_lockResp = FileResponse(InvalidContent)
  /\ loc_result.lockfileFound
  /\ loc_result.critical = <<>>
  /\ \E i \in 1..Len(loc_result.errors) : NamesLockfile(loc_result.errors[i])

(***************************************************************************)
(* C29: checkCache never rejects of a well-formed specifier (SpecCache)    *)
(***************************************************************************)
\* the specifier has a name before its last '@' and a version after it
ValidSplit(spec) ==
  LastIndexOf(spec, "@") > 0 /\ LastIndexOf(spec, "@") + 1 < Len(spec)

\* the request failed: no response, or a status that is neither 2xx nor 404
RequestFailed(answer) ==
  \/ answer.kind \in {"network", "timeout"}
  \/ answer.kind = "http" /\ answer.status \notin 200..299 /\ answer.status # 404

\* the storage response says that the artifact is in the cache
ReportsArtifact(answer) ==
  /\ answer.kind = "http"
  /\ answer.status \in 200..299
  /\ answer.body.kind = "object"
  /\ answer.body.repo

\* what the answers that check i has had so far mean for it
AnswersHonoured(i) ==
  LET c == cc_checks[i] IN
  \A k \in 1..Len(cc_log) :
     cc_log[k].check = i =>
       /\ RequestFailed(cc_log[k].answer) =>
             /\ c.pc = "resolved"
             /\ ~c.result.existsInCache
             /\ c.result.error # NoError
       /\ (cc_log[k].request = "storage" /\ cc_log[k].answer.kind = "http"
              /\ cc_log[k].answer.status = 404) =>
             /\ c.pc = "resolved"
             /\ ~c.result.existsInCache
             /\ c.result.error = NoError

\* the stats request of check i was sent only after a storage response that
\* reported the artifact
StatsAfterStorage(i) ==
  "stats" \in Range(cc_checks[i].requests) =>
     /\ cc_checks[i].requests = <<"storage", "stats">>
     /\ \E k \in 1..Len(cc_log) :
           /\ cc_log[k] = Arrival(i, "storage", cc_log[k].answer)
           /\ ReportsArtifact(cc_log[k].answer)
           /\ \A m \in 1..Len(cc_log) : cc_log[m].check = i /\ m # k => m > k

\* C29: the check of a well-formed specifier never rejects; a failed storage
\* or stats request gives a record with existsInCache false and an error, a
\* 404 of the storage request one with existsInCache false and no error; the
\* stats request follows a storage response that reported the artifact; so
\* Promise.all over well-formed specifiers never rejects, and it fulfils with
\* the records of the specifiers in the order of the list.
C29_CheckCacheNeverRejects ==
  /\ \A i \in 1..Len(cc_checks) :
        ValidSplit(cc_specs[i]) =>
           /\ cc_checks[i].pc # "rejected"
           /\ AnswersHonoured(i)
           /\ StatsAfterStorage(i)
  /\ (\A i \in 1..Len(cc_specs) : ValidSplit(cc_specs[i])) => cc_pc # "rejected"
  /\ cc_pc = "fulfilled" =>
        /\ Len(cc_results) = Len(cc_specs)
        /\ \A i \in 1..Len(cc_specs) :
              /\ cc_results[i] = cc_checks[i].result
              /\ cc_results[i].package \o At \o cc_results[i].version = cc_specs[i]

\* of three checks the third was answered first, the first failed with status
\* 500 and the second found the artifact and its stats: Promise.all fulfilled
C29_Witness ==
  /\ cc_pc = "fulfilled"
  /\ Len(cc_results) = 3
  /\ cc_log[1].check = 3
  /\ \E k \in 1..Len(cc_log) : cc_log[k] = Arrival(1, "storage", Http(500, FALSE, Unparseable))
  /\ cc_results[1].error # NoError
  /\ cc_results[2].existsInCache
  /\ cc_results[2].lastDownloaded = "date"

=============================================================================
